---- MODULE Spec2Model ----
(***************************************************************************)
(* Change detection of the view runtime (render3/instructions/shared.ts):  *)
(* refreshView and the traversals it drives (refreshEmbeddedViews,         *)
(* refreshComponent, refreshContainsDirtyView), the transplanted-view      *)
(* bookkeeping (markTransplantedViewsForRefresh), markViewDirty,           *)
(* detectChangesInternal and checkNoChangesInternal.                       *)
(*                                                                         *)
(* The traversal is modelled with an explicit call stack: one frame per    *)
(* active function call, one action per statement group of refreshView.    *)
(* The view tree is a fixed tree of LViews and LContainers as the creation *)
(* pass leaves it; the flags, counters and TView flags are the state.      *)
(***************************************************************************)
EXTENDS Integers, Sequences, FiniteSets, TLC

\* Budget of embedder operations (markViewDirty, detach, reattach).
MaxOps == 2
\* Budget of top-level change-detection calls (detectChanges, checkNoChanges).
MaxTicks == 2

NULL == "null"

(***************************************************************************)
(* The view tree.                                                          *)
(*   R  root view; its template hosts the components B and D (in this      *)
(*      order) and declares the template of F at the container cR.         *)
(*   B  component view; hosts the component K and owns the container cB,   *)
(*      into which F is inserted.                                          *)
(*   K  component view inside B; owns the container cK, into which E is    *)
(*      inserted.                                                          *)
(*   D  component view; declares a template at the container cDd whose     *)
(*      instances are E (inserted in K) and G (inserted in D's own second  *)
(*      container cDi).                                                    *)
(***************************************************************************)
LViews == {"R", "B", "K", "D", "E", "F", "G"}
LContainers == {"cR", "cB", "cK", "cDd", "cDi"}

\* lView[PARENT] / lContainer[PARENT]
PARENT(n) ==
  CASE n = "R" -> NULL
    [] n = "B" -> "R"
    [] n = "D" -> "R"
    [] n = "K" -> "B"
    [] n = "F" -> "cB"
    [] n = "E" -> "cK"
    [] n = "G" -> "cDi"
    [] n = "cR" -> "R"
    [] n = "cB" -> "B"
    [] n = "cK" -> "K"
    [] n = "cDd" -> "D"
    [] n = "cDi" -> "D"

\* lView[DECLARATION_VIEW] of the embedded views
DECLARATION_VIEW(v) ==
  CASE v = "F" -> "R"
    [] v = "E" -> "D"
    [] v = "G" -> "D"
    [] OTHER -> PARENT(v)

\* lView[TVIEW]: E and G are instances of the same template
TVIEW(v) ==
  CASE v = "R" -> "tR"
    [] v = "B" -> "tB"
    [] v = "K" -> "tK"
    [] v = "D" -> "tD"
    [] v = "F" -> "tF"
    [] v = "E" -> "tT"
    [] v = "G" -> "tT"

TViews == {TVIEW(v) : v \in LViews}

\* The LContainers of an LView in getFirstLContainer / getNextLContainer order
containersOf(v) ==
  CASE v = "R" -> <<"cR">>
    [] v = "B" -> <<"cB">>
    [] v = "K" -> <<"cK">>
    [] v = "D" -> <<"cDd", "cDi">>
    [] OTHER -> <<>>

\* lContainer[CONTAINER_HEADER_OFFSET ..]: the views inserted in a container
containerViews(c) ==
  CASE c = "cB" -> <<"F">>
    [] c = "cK" -> <<"E">>
    [] c = "cDi" -> <<"G">>
    [] OTHER -> <<>>

\* lContainer[MOVED_VIEWS]: views declared at c and inserted somewhere else
MOVED_VIEWS(c) ==
  CASE c = "cR" -> <<"F">>
    [] c = "cDd" -> <<"E", "G">>
    [] OTHER -> <<>>

HAS_TRANSPLANTED_VIEWS(c) == MOVED_VIEWS(c) # <<>>

\* tView.components had markAsComponentHost pushed every host twice
componentsPushedTwice(v) ==
  CASE v = "R" -> <<"B", "D", "B", "D">>
    [] v = "B" -> <<"K", "K">>
    [] OTHER -> <<>>

\* tView.components resolved with getComponentLViewByIndex
components(v) ==
  CASE v = "R" -> <<"B", "D">>
    [] v = "B" -> <<"K">>
    [] OTHER -> <<>>

ComponentViews == {"B", "K", "D"}
EmbeddedViews == {"E", "F", "G"}

\* The views whose ViewRef / ChangeDetectorRef the embedder's code holds: it marks
\* K and G dirty, and detaches and reattaches B, F and G.
Markable == {"K", "G"}
Detachable == {"B", "F", "G"}

\* Fields of a TView that createTView and the first create pass have set:
\* which function references and hook schedules are non-null.
TViewOf(tv) ==
  [template           |-> tv # "tR",
   viewQuery          |-> tv \in {"tB", "tD", "tF"},
   contentQueries     |-> tv \in {"tB", "tD", "tF"},
   preOrderHooks      |-> tv # "tK",
   preOrderCheckHooks |-> tv # "tK",
   contentHooks       |-> tv # "tK",
   contentCheckHooks  |-> tv # "tK",
   viewHooks          |-> tv # "tK",
   viewCheckHooks     |-> tv # "tK",
   hostBindingOpCodes |-> tv \notin {"tK", "tT"}]

\* InitPhaseState
OnInitHooksToBeRun == 0
AfterContentInitHooksToBeRun == 1
AfterViewInitHooksToBeRun == 2
InitPhaseCompleted == 3

VARIABLES
  FLAGS,        \* lView[FLAGS] without the init-phase bits: a set of LViewFlags
  initPhase,    \* lView[FLAGS] & InitPhaseStateMask
  TRANSPLANTED_VIEWS_TO_REFRESH,  \* the counter of every LView and LContainer
  firstUpdatePass,                \* tView.firstUpdatePass
  isInCheckNoChangesMode,         \* the process-wide flag of state.ts
  stack,        \* the call stack: frames of the functions being executed
  log,          \* what the current top-level call has executed so far
  start,        \* the state at the start of the current top-level call
  marked,       \* views passed to markViewDirty since the last top-level call
  ops, ticks,   \* operations and top-level calls made so far
  defTView,     \* def.tView of the component defs: an index of tViews, 0 for null
  tViews,       \* the TViews made by createTView, in the order of their creation
  lViews        \* the LViews made by createLView, in the order of their creation

vars == <<FLAGS, initPhase, TRANSPLANTED_VIEWS_TO_REFRESH, firstUpdatePass,
          isInCheckNoChangesMode, stack, log, start, marked, ops, ticks,
          defTView, tViews, lViews>>

\* The state of the views that are created while the model runs
cvars == <<defTView, tViews, lViews>>

\* The state of the view tree that exists from the start, but the stack and the log
rvars == <<FLAGS, initPhase, TRANSPLANTED_VIEWS_TO_REFRESH, firstUpdatePass,
           isInCheckNoChangesMode, start, marked, ops, ticks>>

NoCall == [fn |-> "", marked |-> {}, hookMarked |-> {}, refreshed |-> {}]
NoStart == [active |-> FALSE, fn |-> "", before |-> NoCall]

Idle == stack = <<>>
Top == stack[Len(stack)]
Pop == SubSeq(stack, 1, Len(stack) - 1)

has(v, flag) == flag \in FLAGS[v]

\* view_utils.ts viewAttachedToChangeDetector
viewAttachedToChangeDetector(v) == has(v, "Attached")

\* type_checks.ts isRootView
isRootView(v) == has(v, "IsRoot")

isLContainer(n) == n \in LContainers

\* view_traversal_utils.ts getLViewParent
getLViewParent(v) ==
  IF isLContainer(PARENT(v)) THEN PARENT(PARENT(v)) ELSE PARENT(v)

\* Dev build: check-no-changes mode exists only there.
ngDevMode == TRUE

(***************************************************************************)
(* Frames and events                                                       *)
(***************************************************************************)
\* A frame of the call stack.  pc 0 is the function's entry; i is the cursor of
\* the loop the frame is in; flags is the init-phase part of `const flags`, read
\* at the entry of refreshView; pass identifies one refreshView execution (the
\* log position of its enterView) and, in a refreshContainsDirtyView frame, the
\* refreshView execution it runs under; via and from say which function, under
\* which refreshView execution, made the call.
Frame(fn, v, via, from) ==
  [fn |-> fn, lView |-> v, pc |-> 0, i |-> 1, flags |-> OnInitHooksToBeRun,
   cnc |-> FALSE, pass |-> from, via |-> via, from |-> from]

Event(f, ev) ==
  [ev |-> ev, lView |-> f.lView, pass |-> f.pass, via |-> f.via, from |-> f.from,
   flags |-> FLAGS[f.lView], cnt |-> TRANSPLANTED_VIEWS_TO_REFRESH[f.lView],
   firstUpdatePass |-> firstUpdatePass[TVIEW(f.lView)], initPhase |-> initPhase[f.lView]]

SetTop(f) == [stack EXCEPT ![Len(stack)] = f]

Range(seq) == {seq[k] : k \in DOMAIN seq}

RECURSIVE Flatten(_, _)
\* The views of the containers cs, in container order: the views inserted in them,
\* or (movedOnly) the MOVED_VIEWS of those that have HAS_TRANSPLANTED_VIEWS.
Flatten(cs, movedOnly) ==
  IF cs = <<>> THEN <<>>
  ELSE (IF movedOnly
        THEN (IF HAS_TRANSPLANTED_VIEWS(Head(cs)) THEN MOVED_VIEWS(Head(cs)) ELSE <<>>)
        ELSE containerViews(Head(cs)))
       \o Flatten(Tail(cs), movedOnly)

(***************************************************************************)
(* Transplanted views                                                      *)
(***************************************************************************)
RECURSIVE addToAncestors(_, _, _)
addToAncestors(cnt, n, amount) ==
  IF n = NULL THEN cnt
  ELSE addToAncestors([cnt EXCEPT ![n] = @ + amount], PARENT(n), amount)

\* view_utils.ts updateTransplantedViewCount: the counter of the container and of
\* everything above it counts the flagged views below.
updateTransplantedViewCount(cnt, lContainer, amount) ==
  addToAncestors(cnt, lContainer, amount)

\* The loop body without the test of the flag: a flagged view is counted again
markMovedViewAgain(st, movedLView) ==
  [F |-> [st.F EXCEPT ![movedLView] = @ \cup {"RefreshTransplantedView"}],
   C |-> updateTransplantedViewCount(st.C, PARENT(movedLView), 1)]

\* One iteration of the loop over movedViews: st is [F |-> flags, C |-> counters].
markMovedView(st, movedLView) ==
  LET insertionLContainer == PARENT(movedLView) IN
  [F |-> [st.F EXCEPT ![movedLView] = @ \cup {"RefreshTransplantedView"}],
   C |-> IF "RefreshTransplantedView" \notin st.F[movedLView]
         THEN updateTransplantedViewCount(st.C, insertionLContainer, 1)
         ELSE st.C]

RECURSIVE markMovedViews(_, _)
markMovedViews(st, movedViews) ==
  IF movedViews = <<>> THEN st
  ELSE markMovedViews(markMovedView(st, Head(movedViews)), Tail(movedViews))

markTransplantedViewsForRefresh(st, lView) ==
  markMovedViews(st, Flatten(containersOf(lView), TRUE))

(***************************************************************************)
(* Dirty marking                                                           *)
(***************************************************************************)
\* markViewDirty setting Dirty on the view only, its ancestors left alone
markViewOnly(F, lView) ==
  [F |-> [F EXCEPT ![lView] = @ \cup {"Dirty"}], root |-> lView]

RECURSIVE markViewDirtyToFirstRoot(_, _)
\* The walk stopped at the first root view, attached to a container or not
markViewDirtyToFirstRoot(F, lView) ==
  IF lView = NULL THEN [F |-> F, root |-> NULL]
  ELSE LET G == [F EXCEPT ![lView] = @ \cup {"Dirty"}]
       IN IF "IsRoot" \in G[lView]
          THEN [F |-> G, root |-> lView]
          ELSE markViewDirtyToFirstRoot(G, getLViewParent(lView))

RECURSIVE markViewDirty(_, _)
\* returns [F |-> the flags, root |-> the root LView or NULL]
markViewDirty(F, lView) ==
  IF lView = NULL THEN [F |-> F, root |-> NULL]
  ELSE LET G == [F EXCEPT ![lView] = @ \cup {"Dirty"}]
           parent == getLViewParent(lView)
       IN IF "IsRoot" \in G[lView] /\ parent = NULL
          THEN [F |-> G, root |-> lView]
          ELSE markViewDirty(G, parent)

(***************************************************************************)
(* Initial state: every view as createLView and the creation pass leave it *)
(***************************************************************************)
\* createLView: flags | CreationMode | Attached | FirstLViewPass; renderView's
\* finally clause has cleared CreationMode.
\* createLView leaving the flags as they were passed
createLViewFlagsAsPassed(flags) == flags

createLViewFlags(flags) == (flags \cup {"CreationMode", "Attached", "FirstLViewPass"})

\* renderView's finally clause without its first statement
keepCreationMode(flags) == flags

\* renderView's finally clause: lView[FLAGS] &= ~LViewFlags.CreationMode
clearCreationMode(flags) == flags \ {"CreationMode"}

\* The component defs of the views created while the model runs: the template
\* of Parent declares one Child component
Defs == {"Parent", "Child"}

\* ... and Pair, whose template declares two Child components side by side
AllDefs == Defs \cup {"Pair"}

\* An OnPush component view created without Dirty
componentFlagsClean(onPush) == IF onPush THEN {} ELSE {"CheckAlways"}

\* addComponentLogic: def.onPush ? Dirty : CheckAlways
componentFlags(onPush) == IF onPush THEN {"Dirty"} ELSE {"CheckAlways"}

\* def.onPush of the component defs: K and D are OnPush, B is either
onPush(v, onPushB) == v \in {"K", "D"} \/ (v = "B" /\ onPushB)

Init ==
  /\ \E onPushB \in BOOLEAN :
       FLAGS = [v \in LViews |->
                  clearCreationMode(createLViewFlags(
                    IF v = "R" THEN {"CheckAlways", "IsRoot"}
                    ELSE IF v \in ComponentViews THEN componentFlags(onPush(v, onPushB))
                    ELSE {"CheckAlways"}))]
  /\ initPhase = [v \in LViews |-> OnInitHooksToBeRun]
  /\ TRANSPLANTED_VIEWS_TO_REFRESH = [n \in LViews \cup LContainers |-> 0]
  /\ firstUpdatePass = [tv \in TViews |-> TRUE]
  /\ isInCheckNoChangesMode = FALSE
  /\ stack = <<>>
  /\ log = <<>>
  /\ start = NoStart
  /\ marked = {}
  /\ ops = 0
  /\ ticks = 0
  /\ defTView = [def \in AllDefs |-> 0]
  /\ tViews = <<>>
  /\ lViews = <<>>

\* What the top-level call that has just returned did: the views marked dirty
\* before it, those marked dirty by a hook during it, those it refreshed
LastCall ==
  IF start.active
  THEN [fn |-> start.fn, marked |-> start.marked,
        hookMarked |-> {log[k].lView : k \in {j \in DOMAIN log : log[j].ev = "markViewDirty"}},
        refreshed |-> {log[k].lView : k \in {j \in DOMAIN log : log[j].ev = "leaveView"}}]
  ELSE NoCall

Snapshot(fn) ==
  [active |-> TRUE, fn |-> fn, FLAGS |-> FLAGS, initPhase |-> initPhase,
   cnt |-> TRANSPLANTED_VIEWS_TO_REFRESH, firstUpdatePass |-> firstUpdatePass,
   marked |-> marked, before |-> LastCall]

(***************************************************************************)
(* Operations of the embedder, between top-level calls                     *)
(***************************************************************************)
\* markViewDirty(v), called from outside change detection
MarkViewDirty(v) ==
  /\ Idle /\ ops < MaxOps
  /\ FLAGS' = markViewDirty(FLAGS, v).F
  /\ marked' = marked \cup {v}
  /\ log' = <<>> /\ start' = NoStart /\ ops' = ops + 1 /\ ticks' = ticks
  /\ UNCHANGED cvars
  /\ UNCHANGED <<initPhase, TRANSPLANTED_VIEWS_TO_REFRESH, firstUpdatePass,
                 isInCheckNoChangesMode, stack>>

\* ViewRef.detach: lView[FLAGS] &= ~Attached
Detach(v) ==
  /\ Idle /\ ops < MaxOps
  /\ has(v, "Attached")
  /\ FLAGS' = [FLAGS EXCEPT ![v] = @ \ {"Attached"}]
  /\ log' = <<>> /\ start' = NoStart /\ ops' = ops + 1 /\ ticks' = ticks
  /\ UNCHANGED cvars
  /\ UNCHANGED <<initPhase, TRANSPLANTED_VIEWS_TO_REFRESH, firstUpdatePass,
                 isInCheckNoChangesMode, stack, marked>>

\* ViewRef.reattach: lView[FLAGS] |= Attached
Reattach(v) ==
  /\ Idle /\ ops < MaxOps
  /\ ~has(v, "Attached")
  /\ FLAGS' = [FLAGS EXCEPT ![v] = @ \cup {"Attached"}]
  /\ log' = <<>> /\ start' = NoStart /\ ops' = ops + 1 /\ ticks' = ticks
  /\ UNCHANGED cvars
  /\ UNCHANGED <<initPhase, TRANSPLANTED_VIEWS_TO_REFRESH, firstUpdatePass,
                 isInCheckNoChangesMode, stack, marked>>

BottomFrame(fn) ==
  [fn |-> fn, lView |-> "R", pc |-> 1, i |-> 1, flags |-> OnInitHooksToBeRun,
   cnc |-> FALSE, pass |-> 0, via |-> "embedder", from |-> 0]

\* The embedder calls detectChangesInternal on the root view.
DetectChanges ==
  /\ Idle /\ ticks < MaxTicks
  /\ stack' = <<BottomFrame("detectChangesInternal")>>
  /\ log' = <<>> /\ start' = Snapshot("detectChangesInternal") /\ marked' = {}
  /\ ticks' = ticks + 1 /\ ops' = ops
  /\ UNCHANGED cvars
  /\ UNCHANGED <<FLAGS, initPhase, TRANSPLANTED_VIEWS_TO_REFRESH, firstUpdatePass,
                 isInCheckNoChangesMode>>

\* The embedder calls checkNoChangesInternal on the root view:
\* setIsInCheckNoChangesMode(true), then the call of detectChangesInternal.
CheckNoChanges ==
  /\ Idle /\ ticks < MaxTicks /\ ngDevMode
  /\ isInCheckNoChangesMode' = TRUE
  /\ stack' = <<[BottomFrame("checkNoChangesInternal") EXCEPT !.pc = 2],
                BottomFrame("detectChangesInternal")>>
  /\ log' = <<>> /\ start' = Snapshot("checkNoChangesInternal") /\ marked' = {}
  /\ ticks' = ticks + 1 /\ ops' = ops
  /\ UNCHANGED cvars
  /\ UNCHANGED <<FLAGS, initPhase, TRANSPLANTED_VIEWS_TO_REFRESH, firstUpdatePass>>

\* checkNoChangesInternal's finally clause
CheckNoChangesFinally ==
  /\ ~Idle /\ Top.fn = "checkNoChangesInternal" /\ Top.pc = 2
  /\ isInCheckNoChangesMode' = FALSE
  /\ stack' = Pop
  /\ UNCHANGED cvars
  /\ UNCHANGED <<FLAGS, initPhase, TRANSPLANTED_VIEWS_TO_REFRESH, firstUpdatePass,
                 log, start, marked, ops, ticks>>

\* detectChangesInternal up to the call of refreshView
DetectChangesBegin ==
  /\ ~Idle /\ Top.fn = "detectChangesInternal" /\ Top.pc = 1
  /\ LET checkNoChangesMode == ngDevMode /\ isInCheckNoChangesMode
         f == [Top EXCEPT !.pc = 2, !.cnc = checkNoChangesMode]
     IN /\ stack' = Append(SetTop(f), Frame("refreshView", f.lView, "detectChangesInternal", 0))
        /\ log' = IF ~checkNoChangesMode THEN Append(log, Event(f, "rendererFactory.begin"))
                  ELSE log
  /\ UNCHANGED cvars
  /\ UNCHANGED <<FLAGS, initPhase, TRANSPLANTED_VIEWS_TO_REFRESH, firstUpdatePass,
                 isInCheckNoChangesMode, start, marked, ops, ticks>>

\* detectChangesInternal's finally clause
DetectChangesFinally ==
  /\ ~Idle /\ Top.fn = "detectChangesInternal" /\ Top.pc = 2
  /\ log' = IF ~Top.cnc THEN Append(log, Event(Top, "rendererFactory.end")) ELSE log
  /\ stack' = Pop
  /\ UNCHANGED cvars
  /\ UNCHANGED <<FLAGS, initPhase, TRANSPLANTED_VIEWS_TO_REFRESH, firstUpdatePass,
                 isInCheckNoChangesMode, start, marked, ops, ticks>>

(***************************************************************************)
(* refreshView                                                             *)
(***************************************************************************)
\* refreshView with the host bindings processed after the child components and
\* the content hooks run after the view hooks
RefreshStepsHostBindingsLate ==
  <<"executeTemplate", "preOrderHooks", "markTransplantedViewsForRefresh",
    "refreshEmbeddedViews", "refreshContentQueries",
    "refreshChildComponents", "processHostBindingOpCodes", "executeViewQueryFn",
    "viewHooks", "contentHooks", "resetFlags">>

\* refreshView with the content queries refreshed before the embedded views and
\* the view query run before the child components
RefreshStepsQueriesEarly ==
  <<"executeTemplate", "preOrderHooks", "markTransplantedViewsForRefresh",
    "refreshContentQueries", "refreshEmbeddedViews", "contentHooks",
    "processHostBindingOpCodes", "executeViewQueryFn", "refreshChildComponents",
    "viewHooks", "resetFlags">>

\* refreshView with firstUpdatePass and the flags reset before anything else
RefreshStepsResetFirst ==
  <<"resetFlags", "executeTemplate", "preOrderHooks", "markTransplantedViewsForRefresh",
    "refreshEmbeddedViews", "refreshContentQueries", "contentHooks",
    "processHostBindingOpCodes", "refreshChildComponents", "executeViewQueryFn",
    "viewHooks">>

\* The body of refreshView's try block, in statement order.
RefreshSteps ==
  <<"executeTemplate", "preOrderHooks", "markTransplantedViewsForRefresh",
    "refreshEmbeddedViews", "refreshContentQueries", "contentHooks",
    "processHostBindingOpCodes", "refreshChildComponents", "executeViewQueryFn",
    "viewHooks", "resetFlags">>

InRefreshView == ~Idle /\ Top.fn = "refreshView"

AtStep(name) ==
  /\ InRefreshView
  /\ Top.pc \in 1..Len(RefreshSteps)
  /\ RefreshSteps[Top.pc] = name

NextStatement(f) == [f EXCEPT !.pc = @ + 1, !.i = 1]

\* hooks.ts incrementInitPhaseFlags: advance when the view is in the given phase
incrementInitPhaseFlags(phase, initPhaseOfView) ==
  IF initPhaseOfView = phase THEN phase + 1 ELSE initPhaseOfView

\* The init schedule chosen whatever the init phase of the view
hookScheduleIgnoringPhase(f, initHooks, checkHooks) ==
  IF ~f.cnc /\ TViewOf(TVIEW(f.lView))[initHooks] THEN initHooks ELSE ""

\* The three `if (!isInCheckNoChangesPass) { if (hooksInitPhaseCompleted) ... }`
\* blocks: which hook schedule is executed, "" for none.
hookSchedule(f, initHooks, checkHooks) ==
  LET tView == TViewOf(TVIEW(f.lView))
      hooksInitPhaseCompleted == f.flags = InitPhaseCompleted
  IN IF ~f.cnc
     THEN IF hooksInitPhaseCompleted
          THEN (IF tView[checkHooks] THEN checkHooks ELSE "")
          ELSE (IF tView[initHooks] THEN initHooks ELSE "")
     ELSE ""

\* The init phase advanced in either mode
hookAdvancesInAnyMode(f) == f.flags # InitPhaseCompleted

\* ... and whether incrementInitPhaseFlags is called
hookAdvances(f) == ~f.cnc /\ f.flags # InitPhaseCompleted

Logged(f, ev) == IF ev = "" THEN log ELSE Append(log, Event(f, ev))

HooksStep(step, initHooks, checkHooks, phase) ==
  /\ AtStep(step)
  /\ log' = Logged(Top, hookSchedule(Top, initHooks, checkHooks))
  /\ initPhase' = IF hookAdvances(Top)
                  THEN [initPhase EXCEPT ![Top.lView] = incrementInitPhaseFlags(phase, @)]
                  ELSE initPhase
  /\ stack' = SetTop(NextStatement(Top))
  /\ UNCHANGED cvars
  /\ UNCHANGED <<FLAGS, TRANSPLANTED_VIEWS_TO_REFRESH, firstUpdatePass,
                 isInCheckNoChangesMode, start, marked, ops, ticks>>

\* refreshView never returning at its entry
neverReturnsAtOnce(flags) == FALSE

\* `if ((flags & Destroyed) === Destroyed) return;`
returnsAtOnce(flags) == "Destroyed" \in flags

\* refreshView, entry: the Destroyed check, enterView, isInCheckNoChangesPass
RefreshViewEnter ==
  /\ InRefreshView /\ Top.pc = 0
  /\ IF returnsAtOnce(FLAGS[Top.lView])
     THEN stack' = Pop /\ log' = log
     ELSE LET f == [Top EXCEPT !.pc = 1, !.flags = initPhase[Top.lView],
                               !.cnc = ngDevMode /\ isInCheckNoChangesMode,
                               !.pass = Len(log) + 1]
          IN stack' = SetTop(f) /\ log' = Append(log, Event(f, "enterView"))
  /\ UNCHANGED cvars
  /\ UNCHANGED <<FLAGS, initPhase, TRANSPLANTED_VIEWS_TO_REFRESH, firstUpdatePass,
                 isInCheckNoChangesMode, start, marked, ops, ticks>>

\* resetPreOrderHookFlags, setBindingIndex, executeTemplate(Update)
ExecuteTemplate ==
  /\ AtStep("executeTemplate")
  /\ log' = Logged(Top, IF TViewOf(TVIEW(Top.lView)).template THEN "template" ELSE "")
  /\ stack' = SetTop(NextStatement(Top))
  /\ UNCHANGED cvars
  /\ UNCHANGED <<FLAGS, initPhase, TRANSPLANTED_VIEWS_TO_REFRESH, firstUpdatePass,
                 isInCheckNoChangesMode, start, marked, ops, ticks>>

PreOrderHooks ==
  HooksStep("preOrderHooks", "preOrderHooks", "preOrderCheckHooks", OnInitHooksToBeRun)

MarkTransplantedViewsForRefresh ==
  /\ AtStep("markTransplantedViewsForRefresh")
  /\ LET st == markTransplantedViewsForRefresh(
                 [F |-> FLAGS, C |-> TRANSPLANTED_VIEWS_TO_REFRESH], Top.lView)
     IN FLAGS' = st.F /\ TRANSPLANTED_VIEWS_TO_REFRESH' = st.C
  /\ stack' = SetTop(NextStatement(Top))
  /\ UNCHANGED cvars
  /\ UNCHANGED <<initPhase, firstUpdatePass, isInCheckNoChangesMode, log, start, marked, ops, ticks>>

\* refreshEmbeddedViews without the viewAttachedToChangeDetector test
refreshEveryEmbeddedView(embeddedLView) == TRUE

\* refreshEmbeddedViews, for one embedded view: is refreshView called on it
refreshEmbeddedView(embeddedLView) == viewAttachedToChangeDetector(embeddedLView)

\* One iteration of the loops of refreshEmbeddedViews, or its end
RefreshEmbeddedViews ==
  /\ AtStep("refreshEmbeddedViews")
  /\ LET views == Flatten(containersOf(Top.lView), FALSE)
         next == [Top EXCEPT !.i = @ + 1]
     IN IF Top.i > Len(views) THEN stack' = SetTop(NextStatement(Top))
        ELSE IF refreshEmbeddedView(views[Top.i])
        THEN stack' = Append(SetTop(next),
                             Frame("refreshView", views[Top.i], "refreshEmbeddedViews", Top.pass))
        ELSE stack' = SetTop(next)
  /\ UNCHANGED cvars
  /\ UNCHANGED <<FLAGS, initPhase, TRANSPLANTED_VIEWS_TO_REFRESH, firstUpdatePass,
                 isInCheckNoChangesMode, log, start, marked, ops, ticks>>

RefreshContentQueries ==
  /\ AtStep("refreshContentQueries")
  /\ log' = Logged(Top, IF TViewOf(TVIEW(Top.lView)).contentQueries
                        THEN "refreshContentQueries" ELSE "")
  /\ stack' = SetTop(NextStatement(Top))
  /\ UNCHANGED cvars
  /\ UNCHANGED <<FLAGS, initPhase, TRANSPLANTED_VIEWS_TO_REFRESH, firstUpdatePass,
                 isInCheckNoChangesMode, start, marked, ops, ticks>>

ContentHooks ==
  HooksStep("contentHooks", "contentHooks", "contentCheckHooks", AfterContentInitHooksToBeRun)

ProcessHostBindingOpCodes ==
  /\ AtStep("processHostBindingOpCodes")
  /\ log' = Append(log, Event(Top, "processHostBindingOpCodes"))
  /\ stack' = SetTop(NextStatement(Top))
  /\ UNCHANGED cvars
  /\ UNCHANGED <<FLAGS, initPhase, TRANSPLANTED_VIEWS_TO_REFRESH, firstUpdatePass,
                 isInCheckNoChangesMode, start, marked, ops, ticks>>

\* refreshComponent testing Dirty only
refreshComponentWhenDirty(componentView) ==
  IF viewAttachedToChangeDetector(componentView)
  THEN IF "Dirty" \in FLAGS[componentView]
       THEN "refreshView"
       ELSE IF TRANSPLANTED_VIEWS_TO_REFRESH[componentView] > 0
            THEN "refreshContainsDirtyView"
            ELSE ""
  ELSE ""

\* refreshComponent: the function it calls on the component view, "" for none
refreshComponent(componentView) ==
  IF viewAttachedToChangeDetector(componentView)
  THEN IF FLAGS[componentView] \cap {"CheckAlways", "Dirty"} # {}
       THEN "refreshView"
       ELSE IF TRANSPLANTED_VIEWS_TO_REFRESH[componentView] > 0
            THEN "refreshContainsDirtyView"
            ELSE ""
  ELSE ""

\* One iteration of the loop of refreshChildComponents, or its end
RefreshChildComponents ==
  /\ AtStep("refreshChildComponents")
  /\ LET cs == components(Top.lView)
         next == [Top EXCEPT !.i = @ + 1]
     IN IF Top.i > Len(cs)
        THEN stack' = SetTop(NextStatement(Top)) /\ log' = log
        ELSE LET callee == refreshComponent(cs[Top.i])
                 call == Frame(callee, cs[Top.i], "refreshComponent", Top.pass)
             IN /\ log' = Append(log, [Event(call, "refreshComponent") EXCEPT !.via = callee])
                /\ stack' = IF callee = "" THEN SetTop(next) ELSE Append(SetTop(next), call)
  /\ UNCHANGED cvars
  /\ UNCHANGED <<FLAGS, initPhase, TRANSPLANTED_VIEWS_TO_REFRESH, firstUpdatePass,
                 isInCheckNoChangesMode, start, marked, ops, ticks>>

ExecuteViewQueryFn ==
  /\ AtStep("executeViewQueryFn")
  /\ log' = Logged(Top, IF TViewOf(TVIEW(Top.lView)).viewQuery
                        THEN "executeViewQueryFn" ELSE "")
  /\ stack' = SetTop(NextStatement(Top))
  /\ UNCHANGED cvars
  /\ UNCHANGED <<FLAGS, initPhase, TRANSPLANTED_VIEWS_TO_REFRESH, firstUpdatePass,
                 isInCheckNoChangesMode, start, marked, ops, ticks>>

ViewHooks ==
  HooksStep("viewHooks", "viewHooks", "viewCheckHooks", AfterViewInitHooksToBeRun)

\* The view hooks when the init schedule runs and an AfterViewInit hook of a
\* component hosted in the view calls markViewDirty on its component view
ViewHooksMarking ==
  /\ AtStep("viewHooks")
  /\ hookSchedule(Top, "viewHooks", "viewCheckHooks") = "viewHooks"
  /\ \E m \in Range(components(Top.lView)) :
       /\ FLAGS' = markViewDirty(FLAGS, m).F
       /\ log' = Append(Append(log, Event(Top, "viewHooks")),
                        [Event(Top, "markViewDirty") EXCEPT !.lView = m])
  /\ initPhase' = IF hookAdvances(Top)
                  THEN [initPhase EXCEPT ![Top.lView] =
                          incrementInitPhaseFlags(AfterViewInitHooksToBeRun, @)]
                  ELSE initPhase
  /\ stack' = SetTop(NextStatement(Top))
  /\ UNCHANGED cvars
  /\ UNCHANGED <<TRANSPLANTED_VIEWS_TO_REFRESH, firstUpdatePass,
                 isInCheckNoChangesMode, start, marked, ops, ticks>>

\* `if (tView.firstUpdatePass === true) tView.firstUpdatePass = false`
flipFirstUpdatePass(isInCheckNoChangesPass, value) ==
  IF value = TRUE THEN FALSE ELSE value

\* FirstLViewPass cleared, Dirty left set
resetFirstPassOnly(isInCheckNoChangesPass, flags) ==
  IF ~isInCheckNoChangesPass THEN flags \ {"FirstLViewPass"} ELSE flags

\* Dirty cleared in either mode
resetDirtyOnly(isInCheckNoChangesPass, flags) == flags \ {"Dirty"}

\* The flags cleared in either mode
resetDirtyInAnyMode(isInCheckNoChangesPass, flags) == flags \ {"Dirty", "FirstLViewPass"}

\* `if (!isInCheckNoChangesPass) lView[FLAGS] &= ~(Dirty | FirstLViewPass)`
resetDirty(isInCheckNoChangesPass, flags) ==
  IF ~isInCheckNoChangesPass THEN flags \ {"Dirty", "FirstLViewPass"} ELSE flags

\* The flag cleared without the update of the count
clearTransplantedFlagOnly(st, lView) ==
  [F |-> [st.F EXCEPT ![lView] = @ \ {"RefreshTransplantedView"}], C |-> st.C]

\* The count updated whether the flag was set or not
clearTransplantedAlways(st, lView) ==
  [F |-> [st.F EXCEPT ![lView] = @ \ {"RefreshTransplantedView"}],
   C |-> updateTransplantedViewCount(st.C, PARENT(lView), -1)]

\* `if (lView[FLAGS] & RefreshTransplantedView) { clear it; update the count }`
clearTransplanted(st, lView) ==
  IF "RefreshTransplantedView" \in st.F[lView]
  THEN [F |-> [st.F EXCEPT ![lView] = @ \ {"RefreshTransplantedView"}],
        C |-> updateTransplantedViewCount(st.C, PARENT(lView), -1)]
  ELSE st

\* The end of refreshView's try block: firstUpdatePass, Dirty and FirstLViewPass,
\* RefreshTransplantedView
ResetFlags ==
  /\ AtStep("resetFlags")
  /\ firstUpdatePass' = [firstUpdatePass EXCEPT ![TVIEW(Top.lView)] =
                           flipFirstUpdatePass(Top.cnc, @)]
  /\ LET st == clearTransplanted(
                 [F |-> [FLAGS EXCEPT ![Top.lView] = resetDirty(Top.cnc, @)],
                  C |-> TRANSPLANTED_VIEWS_TO_REFRESH], Top.lView)
     IN FLAGS' = st.F /\ TRANSPLANTED_VIEWS_TO_REFRESH' = st.C
  /\ stack' = SetTop(NextStatement(Top))
  /\ UNCHANGED cvars
  /\ UNCHANGED <<initPhase, isInCheckNoChangesMode, log, start, marked, ops, ticks>>

\* refreshView's finally clause: leaveView, and the return
LeaveView ==
  /\ InRefreshView /\ Top.pc = Len(RefreshSteps) + 1
  /\ log' = Append(log, Event(Top, "leaveView"))
  /\ stack' = Pop
  /\ UNCHANGED cvars
  /\ UNCHANGED <<FLAGS, initPhase, TRANSPLANTED_VIEWS_TO_REFRESH, firstUpdatePass,
                 isInCheckNoChangesMode, start, marked, ops, ticks>>

(***************************************************************************)
(* refreshContainsDirtyView                                                *)
(***************************************************************************)
\* The first loop without the branch on RefreshTransplantedView
dirtyEmbeddedViewCountOnly(embeddedLView) ==
  IF viewAttachedToChangeDetector(embeddedLView)
     /\ TRANSPLANTED_VIEWS_TO_REFRESH[embeddedLView] > 0
  THEN "refreshContainsDirtyView"
  ELSE ""

\* The first loop without the viewAttachedToChangeDetector test
dirtyEmbeddedViewDetached(embeddedLView) ==
  IF "RefreshTransplantedView" \in FLAGS[embeddedLView]
  THEN "refreshView"
  ELSE IF TRANSPLANTED_VIEWS_TO_REFRESH[embeddedLView] > 0
       THEN "refreshContainsDirtyView"
       ELSE ""

\* The first loop, for one embedded view: the function called on it, "" for none
dirtyEmbeddedView(embeddedLView) ==
  IF viewAttachedToChangeDetector(embeddedLView)
  THEN IF "RefreshTransplantedView" \in FLAGS[embeddedLView]
       THEN "refreshView"
       ELSE IF TRANSPLANTED_VIEWS_TO_REFRESH[embeddedLView] > 0
            THEN "refreshContainsDirtyView"
            ELSE ""
  ELSE ""

\* The second loop, for one component view
dirtyComponentView(componentView) ==
  IF viewAttachedToChangeDetector(componentView)
     /\ TRANSPLANTED_VIEWS_TO_REFRESH[componentView] > 0
  THEN "refreshContainsDirtyView"
  ELSE ""

InDirtyView == ~Idle /\ Top.fn = "refreshContainsDirtyView"

\* One iteration of the loops over the containers' views, or their end
DirtyViewEmbedded ==
  /\ InDirtyView /\ Top.pc = 0
  /\ LET views == Flatten(containersOf(Top.lView), FALSE)
         next == [Top EXCEPT !.i = @ + 1]
     IN IF Top.i > Len(views) THEN stack' = SetTop([Top EXCEPT !.pc = 1, !.i = 1])
        ELSE LET callee == dirtyEmbeddedView(views[Top.i])
             IN stack' = IF callee = "" THEN SetTop(next)
                         ELSE Append(SetTop(next),
                                     Frame(callee, views[Top.i], "refreshContainsDirtyView", Top.pass))
  /\ UNCHANGED cvars
  /\ UNCHANGED <<FLAGS, initPhase, TRANSPLANTED_VIEWS_TO_REFRESH, firstUpdatePass,
                 isInCheckNoChangesMode, log, start, marked, ops, ticks>>

\* One iteration of the loop over tView.components, or the return
DirtyViewComponents ==
  /\ InDirtyView /\ Top.pc = 1
  /\ LET cs == components(Top.lView)
         next == [Top EXCEPT !.i = @ + 1]
     IN IF Top.i > Len(cs) THEN stack' = Pop
        ELSE LET callee == dirtyComponentView(cs[Top.i])
             IN stack' = IF callee = "" THEN SetTop(next)
                         ELSE Append(SetTop(next),
                                     Frame(callee, cs[Top.i], "refreshContainsDirtyView", Top.pass))
  /\ UNCHANGED cvars
  /\ UNCHANGED <<FLAGS, initPhase, TRANSPLANTED_VIEWS_TO_REFRESH, firstUpdatePass,
                 isInCheckNoChangesMode, log, start, marked, ops, ticks>>

(***************************************************************************)
(* Specification                                                           *)
(***************************************************************************)
Next ==
  \/ \E v \in Markable : MarkViewDirty(v)
  \/ \E v \in Detachable : Detach(v)
  \/ \E v \in Detachable : Reattach(v)
  \/ DetectChanges
  \/ CheckNoChanges
  \/ CheckNoChangesFinally
  \/ DetectChangesBegin
  \/ DetectChangesFinally
  \/ RefreshViewEnter
  \/ ExecuteTemplate
  \/ PreOrderHooks
  \/ MarkTransplantedViewsForRefresh
  \/ RefreshEmbeddedViews
  \/ RefreshContentQueries
  \/ ContentHooks
  \/ ProcessHostBindingOpCodes
  \/ RefreshChildComponents
  \/ ExecuteViewQueryFn
  \/ ViewHooks
  \/ ResetFlags
  \/ LeaveView
  \/ DirtyViewEmbedded
  \/ DirtyViewComponents

Spec == Init /\ [][Next]_vars

\* The views the embedder destroys
Destroyable == {"R", "G"}

\* node_manipulation.ts destroyLView: Attached cleared, Destroyed set
Destroy(v) ==
  /\ Idle /\ ops < MaxOps
  /\ ~has(v, "Destroyed")
  /\ FLAGS' = [FLAGS EXCEPT ![v] = (@ \ {"Attached"}) \cup {"Destroyed"}]
  /\ log' = <<>> /\ start' = NoStart /\ ops' = ops + 1 /\ ticks' = ticks
  /\ UNCHANGED cvars
  /\ UNCHANGED <<initPhase, TRANSPLANTED_VIEWS_TO_REFRESH, firstUpdatePass,
                 isInCheckNoChangesMode, stack, marked>>

\* The same, with views destroyed between the calls
NextDestroy == Next \/ \E v \in Destroyable : Destroy(v)

SpecDestroy == Init /\ [][NextDestroy]_vars

(***************************************************************************)
(* Exceptions: a template function or a hook throws, and the error travels *)
(* up the calls, running their catch and finally clauses.  The error in    *)
(* flight is a frame on top of the stack.                                  *)
(***************************************************************************)
\* The user code that throws: an AfterContentInit hook of B, and the template of
\* the transplanted view E when it is refreshed from refreshContainsDirtyView
mayThrow(f, step) ==
  \/ f.lView = "B" /\ step = "contentHooks"
  \/ f.lView = "E" /\ step = "executeTemplate" /\ f.via = "refreshContainsDirtyView"

\* Whether the step of the pass runs user code at all
runsUserCode(f, step) ==
  CASE step = "executeTemplate" -> TViewOf(TVIEW(f.lView)).template
    [] step = "contentHooks" ->
         hookSchedule(f, "contentHooks", "contentCheckHooks") = "contentHooks"
    [] OTHER -> FALSE

InError == ~Idle /\ Top.fn = "error"

\* The frames under the error, and the one that the error reaches next
Callers == SubSeq(stack, 1, Len(stack) - 2)
Caller == stack[Len(stack) - 1]

\* A step of refreshView's try block throws instead of completing
Throw ==
  /\ InRefreshView /\ Top.pc \in 1..Len(RefreshSteps)
  /\ mayThrow(Top, RefreshSteps[Top.pc])
  /\ runsUserCode(Top, RefreshSteps[Top.pc])
  /\ log' = Append(log, Event(Top, "throw"))
  /\ stack' = Append(stack, [Top EXCEPT !.fn = "error"])
  /\ UNCHANGED cvars
  /\ UNCHANGED <<FLAGS, initPhase, TRANSPLANTED_VIEWS_TO_REFRESH, firstUpdatePass,
                 isInCheckNoChangesMode, start, marked, ops, ticks>>

\* refreshView's finally clause on the way of an error: leaveView only
UnwindRefreshView ==
  /\ InError /\ Len(stack) > 1 /\ Caller.fn = "refreshView"
  /\ log' = Append(log, Event(Caller, "leaveView after throw"))
  /\ stack' = Append(Callers, Top)
  /\ UNCHANGED cvars
  /\ UNCHANGED <<FLAGS, initPhase, TRANSPLANTED_VIEWS_TO_REFRESH, firstUpdatePass,
                 isInCheckNoChangesMode, start, marked, ops, ticks>>

\* refreshContainsDirtyView has no try statement: the error passes through
UnwindDirtyView ==
  /\ InError /\ Len(stack) > 1 /\ Caller.fn = "refreshContainsDirtyView"
  /\ stack' = Append(Callers, Top)
  /\ UNCHANGED cvars
  /\ UNCHANGED <<FLAGS, initPhase, TRANSPLANTED_VIEWS_TO_REFRESH, firstUpdatePass,
                 isInCheckNoChangesMode, log, start, marked, ops, ticks>>

\* The ErrorHandler called whatever the arguments
handlesErrorAlways(notifyErrorHandler, errorHandler) == TRUE

\* `if (notifyErrorHandler) handleError(lView, error)`, and handleError's
\* `errorHandler && errorHandler.handleError(error)`
handlesError(notifyErrorHandler, errorHandler) == notifyErrorHandler /\ errorHandler

\* detectChangesInternal's catch and finally clauses: handleError, rethrow,
\* rendererFactory.end.  The argument notifyErrorHandler and the ErrorHandler
\* of lView[INJECTOR] are read nowhere else, so they are drawn here.
UnwindDetectChanges ==
  /\ InError /\ Len(stack) > 1 /\ Caller.fn = "detectChangesInternal"
  /\ \E notifyErrorHandler, errorHandler \in BOOLEAN :
       log' = LET caught == Append(log, Event(Caller, "catch") @@
                                        [notifyErrorHandler |-> notifyErrorHandler,
                                         errorHandler |-> errorHandler])
                  handled == IF handlesError(notifyErrorHandler, errorHandler)
                             THEN Append(caught, Event(Caller, "errorHandler.handleError"))
                             ELSE caught
              IN IF ~Caller.cnc THEN Append(handled, Event(Caller, "rendererFactory.end"))
                 ELSE handled
  /\ stack' = Append(Callers, Top)
  /\ UNCHANGED cvars
  /\ UNCHANGED <<FLAGS, initPhase, TRANSPLANTED_VIEWS_TO_REFRESH, firstUpdatePass,
                 isInCheckNoChangesMode, start, marked, ops, ticks>>

\* checkNoChangesInternal's finally clause on the way of an error
UnwindCheckNoChanges ==
  /\ InError /\ Len(stack) > 1 /\ Caller.fn = "checkNoChangesInternal"
  /\ isInCheckNoChangesMode' = FALSE
  /\ stack' = Append(Callers, Top)
  /\ UNCHANGED cvars
  /\ UNCHANGED <<FLAGS, initPhase, TRANSPLANTED_VIEWS_TO_REFRESH, firstUpdatePass,
                 log, start, marked, ops, ticks>>

\* The error reaches the embedder
Rethrow ==
  /\ InError /\ Len(stack) = 1
  /\ stack' = <<>>
  /\ UNCHANGED cvars
  /\ UNCHANGED <<FLAGS, initPhase, TRANSPLANTED_VIEWS_TO_REFRESH, firstUpdatePass,
                 isInCheckNoChangesMode, log, start, marked, ops, ticks>>

NextErr ==
  \/ Next
  \/ Throw
  \/ UnwindRefreshView
  \/ UnwindDirtyView
  \/ UnwindDetectChanges
  \/ UnwindCheckNoChanges
  \/ Rethrow

SpecErr == Init /\ [][NextErr]_vars

\* The same, with hooks that call markViewDirty
NextHooks == Next \/ ViewHooksMarking

SpecHooks == Init /\ [][NextHooks]_vars

(***************************************************************************)
(* The creation pass: getOrCreateComponentTView, createTView, createLView, *)
(* renderView.  Component views are created by the embedder and by the     *)
(* template of Parent; a renderView call is a frame of the stack.          *)
(***************************************************************************)
MaxLViews == 4
MaxTViews == 4

\* What the component defs declare
DefOf(def) ==
  [template              |-> TRUE,
   viewQuery             |-> TRUE,
   staticContentQueries  |-> def = "Parent",
   staticViewQueries     |-> def = "Parent",
   onPush                |-> def = "Child",
   components            |-> CASE def = "Parent" -> <<"Child">>
                                 [] def = "Pair"   -> <<"Child", "Child">>
                                 [] OTHER          -> <<>>,
   \* one entry per node of the template that directives match: the matched
   \* defs, in match order
   directives            |-> CASE def = "Parent" -> <<<<"Bound">>>>
                                 [] def = "Pair"   -> <<<<"Bound">>, <<"Bound">>>>
                                 [] OTHER          -> <<<<"Bound2", "Listener", "Bound">>>>,
   decls                 |-> IF def \in {"Pair", "Hosts"} THEN 2 ELSE 1,
   vars                  |-> IF def = "Child" THEN 1 ELSE 0]

\* The views that creating a component of the def makes at most
needs(def) == 1 + Len(DefOf(def).components)

\* The header slots of an LView, fewer than the program's
HEADER_OFFSET == 2

\* The directive defs matched on the nodes of the templates: what they
\* declare of host bindings.  Listener has a hostBindings function that
\* binds nothing (host listeners only)
HostTypes == {"Plain", "Listener", "Bound", "Bound2"}

HostDef(type) ==
  [type |-> type,
   hostVars |-> CASE type = "Bound" -> 1 [] type = "Bound2" -> 2 [] OTHER -> 0,
   hostBindings |-> type # "Plain"]

\* createViewBlueprint: header and declaration slots null, binding slots NO_CHANGE
createViewBlueprint(bindingStartIndex, initialViewLength) ==
  [i \in 1..initialViewLength |-> IF i - 1 < bindingStartIndex THEN "null" ELSE "NO_CHANGE"]

\* blueprint.slice().fill(null, bindingStartIndex)
cloneToTViewData(blueprint, bindingStartIndex) ==
  [i \in 1..Len(blueprint) |-> IF i - 1 >= bindingStartIndex THEN "null" ELSE blueprint[i]]

\* createTView: the pass flags, the blueprint and the data of a new TView
createTView(def) ==
  LET bindingStartIndex == HEADER_OFFSET + DefOf(def).decls
      initialViewLength == bindingStartIndex + DefOf(def).vars
      blueprint == createViewBlueprint(bindingStartIndex, initialViewLength)
  IN [def |-> def, firstCreatePass |-> TRUE, firstUpdatePass |-> TRUE,
      incompleteFirstPass |-> FALSE,
      blueprint |-> blueprint, data |-> cloneToTViewData(blueprint, bindingStartIndex),
      hostBindingOpCodes |-> <<>>, tNodes |-> <<>>]

\* The heap an operation works on; tView and allocIdx hold what a call returned,
\* calls the lengths of data, blueprint and LView after each call that writes them
Heap ==
  [defTView |-> defTView, tViews |-> tViews, lViews |-> lViews, tView |-> 0,
   allocIdx |-> -1, calls |-> <<>>]

\* array[index] = value, which lengthens a shorter array
setIndex(array, index, value) ==
  IF index < Len(array) THEN [array EXCEPT ![index + 1] = value]
  ELSE array \o [k \in 1..(index - Len(array)) |-> "undefined"] \o <<value>>

\* array.push(value), n times
pushes(array, n, value) == array \o [k \in 1..n |-> value]

\* The lengths a call left behind
Called(st, fn, t, l) ==
  [st EXCEPT !.calls = Append(@, [fn |-> fn, tView |-> t, lView |-> l, allocIdx |-> st.allocIdx,
                                  data |-> Len(st.tViews[t].data),
                                  blueprint |-> Len(st.tViews[t].blueprint),
                                  length |-> Len(st.lViews[l].slots)])]

\* allocExpando that leaves tView.data alone
allocExpandoBlueprintOnly(st, t, l, numSlotsToAlloc, initialValue) ==
  IF numSlotsToAlloc = 0 THEN [st EXCEPT !.allocIdx = -1]
  ELSE Called([st EXCEPT !.allocIdx = Len(st.lViews[l].slots),
                         !.lViews[l].slots = pushes(@, numSlotsToAlloc, initialValue),
                         !.tViews[t].blueprint = pushes(@, numSlotsToAlloc, initialValue)],
              "allocExpando", t, l)

\* allocExpando: the heap after the call, the index returned in allocIdx
allocExpando(st, t, l, numSlotsToAlloc, initialValue) ==
  IF numSlotsToAlloc = 0 THEN [st EXCEPT !.allocIdx = -1]
  ELSE Called([st EXCEPT !.allocIdx = Len(st.lViews[l].slots),
                         !.lViews[l].slots = pushes(@, numSlotsToAlloc, initialValue),
                         !.tViews[t].blueprint = pushes(@, numSlotsToAlloc, initialValue),
                         !.tViews[t].data = pushes(@, numSlotsToAlloc, "null")],
              "allocExpando", t, l)

\* The entries of tView.hostBindingOpCodes: numbers are written
\* [number |-> n], the hostBindings function of a def [hostBindings |-> its type]
Number(n) == [number |-> n]

\* typeof value === 'number'
isNumber(value) == "number" \in DOMAIN value

RECURSIVE lastSelectedElementIdxFrom(_, _)
\* lastSelectedElementIdx: its loop, i being hostBindingOpCodes.length at first
lastSelectedElementIdxFrom(hostBindingOpCodes, i) ==
  IF i <= 0 THEN 0
  ELSE IF isNumber(hostBindingOpCodes[i]) /\ hostBindingOpCodes[i].number < 0
  THEN hostBindingOpCodes[i].number
  ELSE lastSelectedElementIdxFrom(hostBindingOpCodes, i - 1)

\* lastSelectedElementIdx
lastSelectedElementIdx(hostBindingOpCodes) ==
  lastSelectedElementIdxFrom(hostBindingOpCodes, Len(hostBindingOpCodes))

\* ~index
bitNot(index) == -index - 1

\* registerHostBindingOpCodes: tView.hostBindingOpCodes after the call
registerHostBindingOpCodes(hostBindingOpCodes, tNodeIndex, directiveIdx, directiveVarsIdx, def) ==
  IF ~def.hostBindings THEN hostBindingOpCodes
  ELSE LET elementIndx == bitNot(tNodeIndex)
           selected == IF lastSelectedElementIdx(hostBindingOpCodes) # elementIndx
                       THEN Append(hostBindingOpCodes, Number(elementIndx))
                       ELSE hostBindingOpCodes
       IN selected \o <<Number(directiveIdx), Number(directiveVarsIdx),
                        [hostBindings |-> def.type]>>

\* configureViewWithDirective with the host vars of the def left null
configureViewWithDirectiveNullVars(st, t, l, tNodeIndex, directiveIndex, def) ==
  LET allocated ==
        allocExpando(
          Called([st EXCEPT !.tViews[t].data = setIndex(@, directiveIndex, def.type),
                            !.tViews[t].blueprint = setIndex(@, directiveIndex, "factory"),
                            !.lViews[l].slots = setIndex(@, directiveIndex, "factory")],
                 "configureViewWithDirective", t, l),
          t, l, def.hostVars, "null")
  IN [allocated EXCEPT !.tViews[t].hostBindingOpCodes =
        registerHostBindingOpCodes(@, tNodeIndex, directiveIndex, allocated.allocIdx, def)]

\* configureViewWithDirective: the def and its factory written at directiveIndex,
\* then the host vars of the def allocated and its host bindings registered
configureViewWithDirective(st, t, l, tNodeIndex, directiveIndex, def) ==
  LET allocated ==
        allocExpando(
          Called([st EXCEPT !.tViews[t].data = setIndex(@, directiveIndex, def.type),
                            !.tViews[t].blueprint = setIndex(@, directiveIndex, "factory"),
                            !.lViews[l].slots = setIndex(@, directiveIndex, "factory")],
                 "configureViewWithDirective", t, l),
          t, l, def.hostVars, "NO_CHANGE")
  IN [allocated EXCEPT !.tViews[t].hostBindingOpCodes =
        registerHostBindingOpCodes(@, tNodeIndex, directiveIndex, allocated.allocIdx, def)]

RECURSIVE configureDirectives(_, _, _, _, _, _)
\* initializeDirectives, its loop over the matched defs
configureDirectives(st, t, l, tNodeIndex, directiveIdx, directives) ==
  IF directives = <<>> THEN st
  ELSE configureDirectives(
         configureViewWithDirective(st, t, l, tNodeIndex, directiveIdx, HostDef(Head(directives))),
         t, l, tNodeIndex, directiveIdx + 1, Tail(directives))

\* initTNodeFlags: the directive range of the node
initTNodeFlags(tNodeIndex, index, numberOfDirectives) ==
  [index |-> tNodeIndex, directiveStart |-> index,
   directiveEnd |-> index + numberOfDirectives]

\* initializeDirectives: the range of the node set, a slot for each matched
\* def, then each def configured
initializeDirectives(st, t, l, tNodeIndex, directives) ==
  LET flagged == [st EXCEPT !.tViews[t].tNodes =
                    Append(@, initTNodeFlags(tNodeIndex, Len(st.tViews[t].data),
                                             Len(directives)))]
      allocated == allocExpando(flagged, t, l, Len(directives), "null")
  IN configureDirectives(allocated, t, l, tNodeIndex, allocated.allocIdx, directives)

RECURSIVE resolveDirectivesFrom(_, _, _, _, _)
\* resolveDirectives on nodes[k], nodes[k + 1], ...: a node that no def
\* matches is left as it is
resolveDirectivesFrom(st, t, l, nodes, k) ==
  IF k > Len(nodes) THEN st
  ELSE resolveDirectivesFrom(
         IF nodes[k] = <<>> THEN st
         ELSE initializeDirectives(st, t, l, HEADER_OFFSET + k - 1, nodes[k]),
         t, l, nodes, k + 1)

\* The first create pass of a template: resolveDirectives on each of its
\* nodes, which follow the header in the order of the template
resolveAllDirectives(st, t, l, nodes) == resolveDirectivesFrom(st, t, l, nodes, 1)

\* syncViewWithBlueprint left out
syncNothing(st, l) == st

\* syncViewWithBlueprint: the slots the blueprint has gained are copied
syncViewWithBlueprint(st, l) ==
  LET blueprint == st.tViews[st.lViews[l].TVIEW].blueprint
      length == Len(st.lViews[l].slots)
  IN [st EXCEPT !.lViews[l].slots =
        @ \o [k \in 1..(Len(blueprint) - length) |-> blueprint[length + k]]]

\* def.tView reused whenever there is one
getOrCreateWhenNull(st, def) ==
  IF st.defTView[def] = 0
  THEN [st EXCEPT !.tViews = Append(@, createTView(def)),
                  !.defTView = [@ EXCEPT ![def] = Len(st.tViews) + 1],
                  !.tView = Len(st.tViews) + 1]
  ELSE [st EXCEPT !.tView = st.defTView[def]]

\* getOrCreateComponentTView: the heap after the call, the TView returned in tView
getOrCreateComponentTView(st, def) ==
  IF st.defTView[def] = 0 \/ st.tViews[st.defTView[def]].incompleteFirstPass
  THEN [st EXCEPT !.tViews = Append(@, createTView(def)),
                  !.defTView = [@ EXCEPT ![def] = Len(st.tViews) + 1],
                  !.tView = Len(st.tViews) + 1]
  ELSE [st EXCEPT !.tView = st.defTView[def]]

\* addComponentLogic: the TView of the def, and createLView with Dirty or CheckAlways
addComponentLogic(st, parentLView, def) ==
  LET got == getOrCreateComponentTView(st, def)
  IN [got EXCEPT !.lViews =
        Append(@, [TVIEW |-> got.tView, PARENT |-> parentLView, def |-> def,
                   FLAGS |-> createLViewFlags(componentFlags(DefOf(def).onPush)),
                   slots |-> got.tViews[got.tView].blueprint])]

RECURSIVE addComponents(_, _, _)
\* The component hosts of a template, instantiated in order
addComponents(st, parentLView, defs) ==
  IF defs = <<>> THEN st
  ELSE addComponents(addComponentLogic(st, parentLView, Head(defs)), parentLView, Tail(defs))

\* tView.components of a created view, resolved to its component views
componentsOf(l) ==
  SelectSeq([k \in 1..Len(lViews) |-> k], LAMBDA k : lViews[k].PARENT = l)

\* view_utils.ts isCreationMode
isCreationMode(l) == "CreationMode" \in lViews[l].FLAGS

\* The body of renderView's try block, in statement order
RenderSteps ==
  <<"viewQuery", "template", "firstCreatePassOff", "staticContentQueries",
    "staticViewQueries", "renderChildComponents">>

InRenderView == ~Idle /\ Top.fn = "renderView"

AtRenderStep(name) ==
  /\ InRenderView
  /\ Top.pc \in 1..Len(RenderSteps)
  /\ RenderSteps[Top.pc] = name

RenderFrame(l) == [fn |-> "renderView", lView |-> l, pc |-> 0, i |-> 1, entry |-> TRUE]

\* What a renderView call did, with the pass flags of its TView at that time
RenderEvent(f, ev, tView) ==
  [ev |-> ev, lView |-> f.lView,
   step |-> IF f.pc \in 1..Len(RenderSteps) THEN RenderSteps[f.pc] ELSE "",
   entry |-> f.entry, firstCreatePass |-> tView.firstCreatePass,
   incompleteFirstPass |-> tView.incompleteFirstPass, calls |-> <<>>]

TViewOfFrame(f) == tViews[lViews[f.lView].TVIEW]

\* The embedder creates a component of the def and renders its view:
\* addComponentLogic, then renderComponent
CreateComponent(def) ==
  /\ Idle
  /\ Len(lViews) + needs(def) <= MaxLViews
  /\ Len(tViews) + needs(def) <= MaxTViews
  /\ LET created == addComponentLogic(Heap, 0, def)
         st == syncViewWithBlueprint(created, Len(created.lViews))
     IN /\ defTView' = st.defTView /\ tViews' = st.tViews /\ lViews' = st.lViews
        /\ stack' = <<RenderFrame(Len(st.lViews))>>
  /\ log' = <<>>
  /\ UNCHANGED rvars

\* renderView, entry: enterView
RenderViewEnter ==
  /\ InRenderView /\ Top.pc = 0
  /\ LET f == [Top EXCEPT !.pc = 1, !.entry = TViewOfFrame(Top).firstCreatePass]
     IN stack' = SetTop(f) /\ log' = Append(log, RenderEvent(f, "enterView", TViewOfFrame(f)))
  /\ UNCHANGED cvars
  /\ UNCHANGED rvars

\* if (viewQuery !== null) executeViewQueryFn(RenderFlags.Create, ...)
RenderViewQuery ==
  /\ AtRenderStep("viewQuery")
  /\ log' = IF DefOf(lViews[Top.lView].def).viewQuery
            THEN Append(log, RenderEvent(Top, "viewQuery", TViewOfFrame(Top))) ELSE log
  /\ stack' = SetTop(NextStatement(Top))
  /\ UNCHANGED cvars
  /\ UNCHANGED rvars

\* executeTemplate(..., RenderFlags.Create, ...): in the first create pass the
\* directives of the nodes are resolved, and in every creation pass the
\* component hosts get their component views
executeTemplateCreate(st, l) ==
  LET t == st.lViews[l].TVIEW
      def == DefOf(st.lViews[l].def)
      resolved == IF st.tViews[t].firstCreatePass
                  THEN resolveAllDirectives(st, t, l, def.directives) ELSE st
  IN addComponents(resolved, l, def.components)

\* if (templateFn !== null) executeTemplate(..., RenderFlags.Create, ...)
RenderTemplate ==
  /\ AtRenderStep("template")
  /\ LET st == executeTemplateCreate(Heap, Top.lView)
     IN /\ defTView' = st.defTView /\ tViews' = st.tViews /\ lViews' = st.lViews
        /\ log' = Append(log, [RenderEvent(Top, "template", TViewOfFrame(Top)) EXCEPT
                                !.calls = st.calls])
  /\ stack' = SetTop(NextStatement(Top))
  /\ UNCHANGED rvars

\* if (tView.firstCreatePass) tView.firstCreatePass = false
RenderFirstCreatePassOff ==
  /\ AtRenderStep("firstCreatePassOff")
  /\ tViews' = [tViews EXCEPT ![lViews[Top.lView].TVIEW].firstCreatePass = FALSE]
  /\ stack' = SetTop(NextStatement(Top))
  /\ UNCHANGED <<defTView, lViews, log>>
  /\ UNCHANGED rvars

\* if (tView.staticContentQueries) refreshContentQueries(tView, lView)
RenderStaticContentQueries ==
  /\ AtRenderStep("staticContentQueries")
  /\ log' = IF DefOf(lViews[Top.lView].def).staticContentQueries
            THEN Append(log, RenderEvent(Top, "staticContentQueries", TViewOfFrame(Top)))
            ELSE log
  /\ stack' = SetTop(NextStatement(Top))
  /\ UNCHANGED cvars
  /\ UNCHANGED rvars

\* if (tView.staticViewQueries) executeViewQueryFn(RenderFlags.Update, ...)
RenderStaticViewQueries ==
  /\ AtRenderStep("staticViewQueries")
  /\ log' = IF DefOf(lViews[Top.lView].def).staticViewQueries
            THEN Append(log, RenderEvent(Top, "staticViewQueries", TViewOfFrame(Top)))
            ELSE log
  /\ stack' = SetTop(NextStatement(Top))
  /\ UNCHANGED cvars
  /\ UNCHANGED rvars

\* renderChildComponents: one iteration of its loop (renderComponent calls
\* syncViewWithBlueprint, then renderView on the component view), or its end
RenderChildComponents ==
  /\ AtRenderStep("renderChildComponents")
  /\ LET cs == componentsOf(Top.lView)
     IN IF Top.i > Len(cs)
        THEN stack' = SetTop(NextStatement(Top)) /\ UNCHANGED lViews
        ELSE /\ stack' = Append(SetTop([Top EXCEPT !.i = @ + 1]), RenderFrame(cs[Top.i]))
             /\ lViews' = syncViewWithBlueprint(Heap, cs[Top.i]).lViews
  /\ UNCHANGED <<defTView, tViews, log>>
  /\ UNCHANGED rvars

\* renderView's finally clause after the try block completed
RenderViewFinally ==
  /\ InRenderView /\ Top.pc = Len(RenderSteps) + 1
  /\ lViews' = [lViews EXCEPT ![Top.lView].FLAGS = clearCreationMode(@)]
  /\ log' = Append(log, RenderEvent(Top, "leaveView", TViewOfFrame(Top)))
  /\ stack' = Pop
  /\ UNCHANGED <<defTView, tViews>>
  /\ UNCHANGED rvars

\* The statements of renderView that run user code
ThrowingRenderSteps ==
  {"viewQuery", "template", "staticContentQueries", "staticViewQueries"}

\* A query function or the template throws; the template may have made its
\* component views by then
RenderThrow ==
  /\ InRenderView /\ Top.pc \in 1..Len(RenderSteps)
  /\ RenderSteps[Top.pc] \in ThrowingRenderSteps
  /\ DefOf(lViews[Top.lView].def)[RenderSteps[Top.pc]]
  /\ \E made \in BOOLEAN :
       LET st == IF made /\ RenderSteps[Top.pc] = "template"
                 THEN executeTemplateCreate(Heap, Top.lView)
                 ELSE Heap
       IN /\ defTView' = st.defTView /\ tViews' = st.tViews /\ lViews' = st.lViews
          /\ log' = Append(log, [RenderEvent(Top, "throw", TViewOfFrame(Top)) EXCEPT
                                  !.calls = st.calls])
  /\ stack' = Append(stack, [Top EXCEPT !.fn = "error"])
  /\ UNCHANGED rvars

\* The catch clause leaving firstCreatePass set for another attempt
renderViewCatchForRetry(tView) ==
  [tView EXCEPT !.incompleteFirstPass = TRUE, !.firstCreatePass = TRUE]

\* The catch clause without the mark
renderViewCatchUnmarked(tView) == [tView EXCEPT !.firstCreatePass = FALSE]

\* renderView's catch clause
renderViewCatch(tView) ==
  IF tView.firstCreatePass
  THEN [tView EXCEPT !.incompleteFirstPass = TRUE, !.firstCreatePass = FALSE]
  ELSE tView

\* An error reaches a renderView call: its catch clause, its finally clause,
\* and the error thrown on
RenderViewCatch ==
  /\ InError /\ Len(stack) > 1 /\ Caller.fn = "renderView"
  /\ LET tView == renderViewCatch(TViewOfFrame(Caller))
     IN /\ tViews' = [tViews EXCEPT ![lViews[Caller.lView].TVIEW] = tView]
        /\ log' = Append(Append(log, RenderEvent(Caller, "rethrow", tView)),
                         RenderEvent(Caller, "leaveView", tView))
  /\ lViews' = [lViews EXCEPT ![Caller.lView].FLAGS = clearCreationMode(@)]
  /\ stack' = Append(Callers, Top)
  /\ UNCHANGED defTView
  /\ UNCHANGED rvars

\* refreshView on a created view, summarised: it is entered in update mode only;
\* a pass that completes flips firstUpdatePass and resets Dirty and FirstLViewPass
RefreshLView(l) ==
  /\ Idle /\ l \in DOMAIN lViews /\ ~isCreationMode(l)
  /\ tViews' = [tViews EXCEPT ![lViews[l].TVIEW].firstUpdatePass = flipFirstUpdatePass(FALSE, @)]
  /\ lViews' = [lViews EXCEPT ![l].FLAGS = resetDirty(FALSE, @)]
  /\ log' = <<[ev |-> "refreshView", lView |-> l]>>
  /\ UNCHANGED <<defTView, stack>>
  /\ UNCHANGED rvars

\* ... and a pass that an exception ends
RefreshLViewThrows(l) ==
  /\ Idle /\ l \in DOMAIN lViews /\ ~isCreationMode(l)
  /\ log' = <<[ev |-> "refreshView throws", lView |-> l]>>
  /\ UNCHANGED <<cvars, stack>>
  /\ UNCHANGED rvars

NextCreate ==
  \/ \E def \in Defs : CreateComponent(def)
  \/ RenderViewEnter
  \/ RenderViewQuery
  \/ RenderTemplate
  \/ RenderFirstCreatePassOff
  \/ RenderStaticContentQueries
  \/ RenderStaticViewQueries
  \/ RenderChildComponents
  \/ RenderViewFinally
  \/ RenderThrow
  \/ RenderViewCatch
  \/ Rethrow
  \/ \E l \in 1..MaxLViews : RefreshLView(l)
  \/ \E l \in 1..MaxLViews : RefreshLViewThrows(l)

SpecCreate == Init /\ [][NextCreate]_vars

\* Creation passes only, with an embedder that also creates Pair
NextExpando ==
  \/ \E def \in AllDefs : CreateComponent(def)
  \/ RenderViewEnter
  \/ RenderViewQuery
  \/ RenderTemplate
  \/ RenderFirstCreatePassOff
  \/ RenderStaticContentQueries
  \/ RenderStaticViewQueries
  \/ RenderChildComponents
  \/ RenderViewFinally
  \/ RenderThrow
  \/ RenderViewCatch
  \/ Rethrow

SpecExpando == Init /\ [][NextExpando]_vars

(***************************************************************************)
(* refreshView on a created view, step by step: its enterView, the body of *)
(* its try block, which completes or throws, and its finally clause.       *)
(***************************************************************************)
\* The finally clause without leaveView
finallyNothing(lg, f) == lg

\* finally { leaveView(); }
finallyLeaveView(lg, f) == Append(lg, [ev |-> "leaveView", lView |-> f.lView])

InRefreshLView == ~Idle /\ Top.fn = "refreshLView"

\* The embedder calls refreshView on a created view: the assertion on the
\* creation mode, and enterView
RefreshLViewEnter(l) ==
  /\ Idle /\ l \in DOMAIN lViews /\ ~isCreationMode(l)
  /\ stack' = <<[fn |-> "refreshLView", lView |-> l, pc |-> 1]>>
  /\ log' = <<[ev |-> "enterView", lView |-> l]>>
  /\ UNCHANGED cvars
  /\ UNCHANGED rvars

\* The try block runs to its end
RefreshLViewBody ==
  /\ InRefreshLView /\ Top.pc = 1
  /\ tViews' = [tViews EXCEPT ![lViews[Top.lView].TVIEW].firstUpdatePass =
                                 flipFirstUpdatePass(FALSE, @)]
  /\ lViews' = [lViews EXCEPT ![Top.lView].FLAGS = resetDirty(FALSE, @)]
  /\ stack' = SetTop([Top EXCEPT !.pc = 2])
  /\ UNCHANGED <<defTView, log>>
  /\ UNCHANGED rvars

\* The template, a hook or a host-binding function throws
RefreshLViewBodyThrows ==
  /\ InRefreshLView /\ Top.pc = 1
  /\ log' = Append(log, [ev |-> "throw", lView |-> Top.lView])
  /\ stack' = Append(stack, [Top EXCEPT !.fn = "error"])
  /\ UNCHANGED cvars
  /\ UNCHANGED rvars

\* The finally clause after the try block completed, and the return
RefreshLViewLeave ==
  /\ InRefreshLView /\ Top.pc = 2
  /\ log' = finallyLeaveView(log, Top)
  /\ stack' = Pop
  /\ UNCHANGED cvars
  /\ UNCHANGED rvars

\* The finally clause on the way of the error
RefreshLViewUnwind ==
  /\ InError /\ Len(stack) > 1 /\ Caller.fn = "refreshLView"
  /\ log' = finallyLeaveView(log, Caller)
  /\ stack' = Append(Callers, Top)
  /\ UNCHANGED cvars
  /\ UNCHANGED rvars

NextFrames ==
  \/ \E def \in Defs : CreateComponent(def)
  \/ RenderViewEnter
  \/ RenderViewQuery
  \/ RenderTemplate
  \/ RenderFirstCreatePassOff
  \/ RenderStaticContentQueries
  \/ RenderStaticViewQueries
  \/ RenderChildComponents
  \/ RenderViewFinally
  \/ RenderThrow
  \/ RenderViewCatch
  \/ Rethrow
  \/ \E l \in 1..MaxLViews : RefreshLViewEnter(l)
  \/ RefreshLViewBody
  \/ RefreshLViewBodyThrows
  \/ RefreshLViewLeave
  \/ RefreshLViewUnwind

SpecFrames == Init /\ [][NextFrames]_vars

(***************************************************************************)
(* markViewDirty on its own: the views that carry the root flag are drawn  *)
(* at the start (a root view may be inserted in a container), and each     *)
(* call records what it returned.                                          *)
(***************************************************************************)
\* The views that may be root views: the top of the tree, and the views F and G
\* that are inserted in containers
RootCandidates == {"R", "F", "G"}

InitMark ==
  /\ \E onPushB \in BOOLEAN : \E roots \in SUBSET RootCandidates :
       FLAGS = [v \in LViews |->
                  clearCreationMode(createLViewFlags(
                    (IF v \in roots THEN {"IsRoot"} ELSE {}) \cup
                    (IF v \in ComponentViews THEN componentFlags(onPush(v, onPushB))
                     ELSE {"CheckAlways"})))]
  /\ initPhase = [v \in LViews |-> OnInitHooksToBeRun]
  /\ TRANSPLANTED_VIEWS_TO_REFRESH = [n \in LViews \cup LContainers |-> 0]
  /\ firstUpdatePass = [tv \in TViews |-> TRUE]
  /\ isInCheckNoChangesMode = FALSE
  /\ stack = <<>>
  /\ log = <<>>
  /\ start = NoStart
  /\ marked = {}
  /\ ops = 0
  /\ ticks = 0
  /\ defTView = [def \in AllDefs |-> 0]
  /\ tViews = <<>>
  /\ lViews = <<>>

\* A call of markViewDirty, with the flags before it and the value it returns
MarkViewDirtyCall(v) ==
  /\ Idle /\ ops < MaxOps
  /\ FLAGS' = markViewDirty(FLAGS, v).F
  /\ log' = <<[ev |-> "markViewDirty", lView |-> v, before |-> FLAGS,
               root |-> markViewDirty(FLAGS, v).root]>>
  /\ marked' = marked \cup {v}
  /\ ops' = ops + 1
  /\ UNCHANGED cvars
  /\ UNCHANGED <<initPhase, TRANSPLANTED_VIEWS_TO_REFRESH, firstUpdatePass,
                 isInCheckNoChangesMode, stack, start, ticks>>

NextMark == \E v \in LViews : MarkViewDirtyCall(v)

SpecMark == InitMark /\ [][NextMark]_vars

(***************************************************************************)
(* Directive resolution on one node in the first create pass:              *)
(* findDirectiveDefMatches, initializeDirectives, cacheMatchingLocalNames, *)
(* instantiateAllDirectives.  The node, the registry and the build are     *)
(* drawn at the start and kept in the first entry of the log.              *)
(***************************************************************************)
\* Longest directive registry
MaxRegistry == 3
\* Most local refs of a node
MaxLocalRefs == 2

NoAliases == [n \in {} |-> ""]

\* The defs a registry lists; HostA and HostX are reached as host directives only
RegistryDefs == {"CompA", "CompB", "DirX", "DirY", "DirZ"}

\* What the directive defs declare.  selectorMatches is the outcome of
\* isNodeMatchingSelectorList on the node; inputs and outputs list the
\* (publicName, internalName) entries in the order of the object's keys;
\* hostDirectives holds, for each host directive, its def and the alias maps
\* its declaration gives
DirectiveDef(type) ==
  CASE type = "CompA" ->
         [type |-> type, component |-> TRUE, selectorMatches |-> TRUE,
          exportAs |-> <<"a">>, setInput |-> TRUE,
          inputs |-> <<<<"value", "valueA">>>>, outputs |-> <<<<"change", "changeA">>>>,
          findHostDirectiveDefs |-> TRUE,
          hostDirectives |-> <<[directive |-> "HostA",
                                inputs |-> ("value" :> "hostValue"),
                                outputs |-> NoAliases]>>]
    [] type = "CompB" ->
         [type |-> type, component |-> TRUE, selectorMatches |-> TRUE,
          exportAs |-> <<>>, setInput |-> FALSE,
          inputs |-> <<<<"value", "valueB">>>>, outputs |-> <<>>,
          findHostDirectiveDefs |-> FALSE, hostDirectives |-> <<>>]
    [] type = "DirX" ->
         [type |-> type, component |-> FALSE, selectorMatches |-> TRUE,
          exportAs |-> <<"x">>, setInput |-> FALSE,
          inputs |-> <<<<"value", "v">>, <<"other", "o">>>>,
          outputs |-> <<<<"change", "c">>>>,
          findHostDirectiveDefs |-> TRUE,
          hostDirectives |-> <<[directive |-> "HostX",
                                inputs |-> ("value" :> "value"),
                                outputs |-> ("done" :> "change")]>>]
    [] type = "DirY" ->
         [type |-> type, component |-> FALSE, selectorMatches |-> TRUE,
          exportAs |-> <<"x", "y">>, setInput |-> TRUE,
          inputs |-> <<<<"value", "val">>>>, outputs |-> <<<<"change", "ch">>>>,
          findHostDirectiveDefs |-> FALSE, hostDirectives |-> <<>>]
    [] type = "DirZ" ->
         [type |-> type, component |-> FALSE, selectorMatches |-> FALSE,
          exportAs |-> <<"x">>, setInput |-> FALSE,
          inputs |-> <<<<"value", "z">>>>, outputs |-> <<>>,
          findHostDirectiveDefs |-> FALSE, hostDirectives |-> <<>>]
    [] type = "HostA" ->
         [type |-> type, component |-> FALSE, selectorMatches |-> FALSE,
          exportAs |-> <<>>, setInput |-> FALSE,
          inputs |-> <<<<"value", "hv">>, <<"hidden", "hh">>>>,
          outputs |-> <<<<"change", "hc">>>>,
          findHostDirectiveDefs |-> FALSE, hostDirectives |-> <<>>]
    [] type = "HostX" ->
         [type |-> type, component |-> FALSE, selectorMatches |-> FALSE,
          exportAs |-> <<>>, setInput |-> FALSE,
          inputs |-> <<<<"value", "xv">>, <<"hidden", "xh">>>>,
          outputs |-> <<<<"done", "xd">>, <<"change", "xc">>>>,
          findHostDirectiveDefs |-> FALSE, hostDirectives |-> <<>>]

isComponentDef(type) == DirectiveDef(type).component

\* def.findHostDirectiveDefs(def, matches, hostDirectiveDefs): the host
\* directives of the def appended to matches ...
hostDirectiveMatches(type) ==
  [i \in 1..Len(DirectiveDef(type).hostDirectives) |->
     DirectiveDef(type).hostDirectives[i].directive]

\* ... and their alias maps entered in hostDirectiveDefs
hostDirectiveAliases(type) ==
  [d \in Range(hostDirectiveMatches(type)) |->
     LET entry == CHOOSE h \in Range(DirectiveDef(type).hostDirectives) : h.directive = d
     IN [inputs |-> entry.inputs, outputs |-> entry.outputs]]

\* Before the first def of the registry is looked at.  An empty matches list
\* stands for null, an empty hostDirectiveDefs for null or an empty Map
NoMatches ==
  [matches |-> <<>>, hostDirectiveDefs |-> [d \in {} |-> NoAliases],
   componentOffset |-> -1, components |-> 0, error |-> <<>>]

\* matches.find(isComponentDef)
firstComponent(matches) ==
  matches[CHOOSE i \in 1..Len(matches) :
            /\ isComponentDef(matches[i])
            /\ \A j \in 1..(i - 1) : ~isComponentDef(matches[j])]

\* A component def put behind the matches found so far
matchComponentLast(m, type) ==
  [m EXCEPT !.matches = @ \o hostDirectiveMatches(type) \o <<type>>,
            !.hostDirectiveDefs = hostDirectiveAliases(type) @@ @,
            !.componentOffset = Len(m.matches) + Len(hostDirectiveMatches(type)),
            !.components = @ + 1]

\* matches.unshift(...hostDirectiveMatches, def); markAsComponentHost
matchComponent(m, type) ==
  IF DirectiveDef(type).findHostDirectiveDefs
  THEN [m EXCEPT !.matches = hostDirectiveMatches(type) \o <<type>> \o @,
                 !.hostDirectiveDefs = hostDirectiveAliases(type) @@ @,
                 !.componentOffset = Len(hostDirectiveMatches(type)),
                 !.components = @ + 1]
  ELSE [m EXCEPT !.matches = <<type>> \o @,
                 !.componentOffset = 0,
                 !.components = @ + 1]

\* The check for a second component made in every build
checksInAnyBuild(devMode) == TRUE

\* if (ngDevMode) { ... if (isComponentHost(tNode)) throwMultipleComponentError }
checksMultipleComponents(devMode) == devMode

RECURSIVE findDirectiveDefMatchesFrom(_, _, _, _)
\* findDirectiveDefMatches: its loop from registry[i] on
findDirectiveDefMatchesFrom(registry, i, m, devMode) ==
  IF i > Len(registry) THEN m
  ELSE LET def == DirectiveDef(registry[i])
       IN IF ~def.selectorMatches
          THEN findDirectiveDefMatchesFrom(registry, i + 1, m, devMode)
          ELSE IF def.component
          THEN IF checksMultipleComponents(devMode) /\ m.componentOffset > -1
               THEN [m EXCEPT !.error = <<"MULTIPLE_COMPONENTS_FOR_HOST",
                                          firstComponent(m.matches), def.type>>]
               ELSE findDirectiveDefMatchesFrom(registry, i + 1,
                                                matchComponent(m, def.type), devMode)
          ELSE findDirectiveDefMatchesFrom(
                 registry, i + 1,
                 [m EXCEPT !.matches =
                             (IF def.findHostDirectiveDefs
                              THEN @ \o hostDirectiveMatches(def.type) ELSE @) \o <<def.type>>,
                           !.hostDirectiveDefs =
                             IF def.findHostDirectiveDefs
                             THEN hostDirectiveAliases(def.type) @@ @ ELSE @],
                 devMode)

\* findDirectiveDefMatches(tView, tNode), on tView.directiveRegistry
findDirectiveDefMatches(registry, devMode) ==
  findDirectiveDefMatchesFrom(registry, 1, NoMatches, devMode)

\* The members an object literal inherits from Object.prototype
ObjectPrototype == {"constructor", "toString"}

\* exportsMap[name] == null
exportMissing(exportsMap, name) ==
  name \notin DOMAIN exportsMap /\ name \notin ObjectPrototype

\* exportsMap[name]: a directive index, -1, or an inherited member
exportIndex(exportsMap, name) ==
  IF name \in DOMAIN exportsMap THEN exportsMap[name] ELSE <<"Object.prototype", name>>

\* saveNameToExportMap
saveNameToExportMap(directiveIdx, type, exportsMap) ==
  LET exportAs == DirectiveDef(type).exportAs
      named == [n \in Range(exportAs) |-> directiveIdx] @@ exportsMap
  IN IF isComponentDef(type) THEN ("" :> directiveIdx) @@ named ELSE named

RECURSIVE saveNamesFrom(_, _, _, _)
\* initializeDirectives: saveNameToExportMap for directives[i], directives[i+1], ...
saveNamesFrom(directives, i, directiveStart, exportsMap) ==
  IF i > Len(directives) THEN exportsMap
  ELSE saveNamesFrom(directives, i + 1, directiveStart,
                     saveNameToExportMap(directiveStart + i - 1, directives[i], exportsMap))

RECURSIVE cacheMatchingLocalNamesFrom(_, _, _, _)
\* cacheMatchingLocalNames: its loop from localRefs[i] on (i counts from 1)
cacheMatchingLocalNamesFrom(localRefs, i, exportsMap, localNames) ==
  IF i > Len(localRefs) THEN [localNames |-> localNames, error |-> <<>>]
  ELSE IF exportMissing(exportsMap, localRefs[i + 1])
  THEN [localNames |-> localNames, error |-> <<"EXPORT_NOT_FOUND", localRefs[i + 1]>>]
  ELSE cacheMatchingLocalNamesFrom(
         localRefs, i + 2, exportsMap,
         localNames \o <<localRefs[i], exportIndex(exportsMap, localRefs[i + 1])>>)

RECURSIVE generatePropertyAliasesUnfiltered(_, _, _, _)
RECURSIVE generatePropertyAliasesOnce(_, _, _, _)
RECURSIVE generatePropertyAliases(_, _, _, _)
RECURSIVE initializeInputAndOutputAliasesFrom(_, _, _, _, _)
\* propertyAliases[publicName].push(directiveIndex, internalName), or the first pair
addPropertyAlias(propertyAliases, directiveIndex, publicName, internalName) ==
  IF publicName \in DOMAIN propertyAliases
  THEN [propertyAliases EXCEPT ![publicName] = @ \o <<directiveIndex, internalName>>]
  ELSE (publicName :> <<directiveIndex, internalName>>) @@ propertyAliases

\* generatePropertyAliases that takes no notice of the host directive alias map
generatePropertyAliasesUnfiltered(aliasMap, directiveIndex, propertyAliases, hostDirectiveAliasMap) ==
  IF aliasMap = <<>> THEN propertyAliases
  ELSE generatePropertyAliasesUnfiltered(
         Tail(aliasMap), directiveIndex,
         addPropertyAlias(propertyAliases, directiveIndex, Head(aliasMap)[1], Head(aliasMap)[2]),
         hostDirectiveAliasMap)

\* generatePropertyAliases that adds a public name once only
generatePropertyAliasesOnce(aliasMap, directiveIndex, propertyAliases, hostDirectiveAliasMap) ==
  IF aliasMap = <<>> THEN propertyAliases
  ELSE generatePropertyAliasesOnce(
         Tail(aliasMap), directiveIndex,
         IF Head(aliasMap)[1] \in DOMAIN propertyAliases THEN propertyAliases
         ELSE addPropertyAlias(propertyAliases, directiveIndex, Head(aliasMap)[1],
                               Head(aliasMap)[2]),
         hostDirectiveAliasMap)

\* generatePropertyAliases: hostDirectiveAliasMap is [null |-> TRUE] or
\* [null |-> FALSE, map |-> the alias map]; a null propertyAliases and an
\* empty one are the empty function
generatePropertyAliases(aliasMap, directiveIndex, propertyAliases, hostDirectiveAliasMap) ==
  IF aliasMap = <<>> THEN propertyAliases
  ELSE LET publicName == Head(aliasMap)[1]
           internalName == Head(aliasMap)[2]
       IN generatePropertyAliases(
            Tail(aliasMap), directiveIndex,
            IF hostDirectiveAliasMap.null
            THEN addPropertyAlias(propertyAliases, directiveIndex, publicName, internalName)
            ELSE IF publicName \in DOMAIN hostDirectiveAliasMap.map
            THEN addPropertyAlias(propertyAliases, directiveIndex,
                                  hostDirectiveAliasMap.map[publicName], internalName)
            ELSE propertyAliases,
            hostDirectiveAliasMap)

\* hostDirectiveDefinitionMap.get(directiveDef), then .inputs or .outputs
aliasData(hostDirectiveDefinitionMap, type, field) ==
  IF type \in DOMAIN hostDirectiveDefinitionMap
  THEN [null |-> FALSE, map |-> hostDirectiveDefinitionMap[type][field]]
  ELSE [null |-> TRUE]

\* initializeInputAndOutputAliases: its loop from directiveIndex on, over
\* the defs at tView.data[directiveStart .. directiveEnd - 1]
initializeInputAndOutputAliasesFrom(data, directiveIndex, directiveEnd, hostDirectiveDefinitionMap, stores) ==
  IF directiveIndex >= directiveEnd THEN stores
  ELSE LET directiveDef == DirectiveDef(data[directiveIndex])
       IN initializeInputAndOutputAliasesFrom(
            data, directiveIndex + 1, directiveEnd, hostDirectiveDefinitionMap,
            [inputs |-> generatePropertyAliases(
                          directiveDef.inputs, directiveIndex, stores.inputs,
                          aliasData(hostDirectiveDefinitionMap, directiveDef.type, "inputs")),
             outputs |-> generatePropertyAliases(
                           directiveDef.outputs, directiveIndex, stores.outputs,
                           aliasData(hostDirectiveDefinitionMap, directiveDef.type, "outputs"))])

NoPropertyAliases == [n \in {} |-> <<>>]

\* createTNode: a node that no directive has been resolved on
createTNode ==
  [ev |-> "resolveDirectives", hasDirectives |-> FALSE, error |-> <<>>,
   matches |-> <<>>, hostDirectiveDefs |-> NoMatches.hostDirectiveDefs,
   componentOffset |-> -1, components |-> 0,
   directiveStart |-> -1, directiveEnd |-> -1, data |-> <<>>,
   localNamesSet |-> FALSE, localNames |-> <<>>,
   inputs |-> NoPropertyAliases, outputs |-> NoPropertyAliases]

\* resolveDirectives(tView, lView, tNode, localRefs): the node after the call,
\* or the error thrown with what the call had written by then
resolveDirectives(tNode) ==
  IF ~tNode.bindingsEnabled THEN createTNode
  ELSE
    LET matchResult == findDirectiveDefMatches(tNode.registry, tNode.devMode)
        directives == matchResult.matches
        directiveStart == tNode.dataLength
        directiveEnd == directiveStart + Len(directives)
        data == [i \in directiveStart..(directiveEnd - 1) |-> directives[i - directiveStart + 1]]
        stores == initializeInputAndOutputAliasesFrom(
                    data, directiveStart, directiveEnd, matchResult.hostDirectiveDefs,
                    [inputs |-> NoPropertyAliases, outputs |-> NoPropertyAliases])
        matched == [createTNode EXCEPT
                      !.componentOffset = matchResult.componentOffset,
                      !.components = matchResult.components]
        initialized ==
          IF directives = <<>> THEN matched
          ELSE [matched EXCEPT
                  !.hasDirectives = TRUE, !.matches = directives,
                  !.hostDirectiveDefs = matchResult.hostDirectiveDefs,
                  !.directiveStart = directiveStart, !.directiveEnd = directiveEnd,
                  !.data = data, !.inputs = stores.inputs, !.outputs = stores.outputs]
        exportsMap == saveNamesFrom(directives, 1, directiveStart, ("" :> -1))
        cached == cacheMatchingLocalNamesFrom(tNode.localRefs, 1, exportsMap, <<>>)
    IN IF matchResult.error # <<>> THEN [matched EXCEPT !.error = matchResult.error]
       ELSE IF tNode.localRefsNull THEN initialized
       ELSE [initialized EXCEPT !.localNamesSet = TRUE,
                                !.localNames = cached.localNames,
                                !.error = cached.error]

\* instantiateAllDirectives: the component defs addComponentLogic makes an
\* LView for, in the order of the directive range
instantiateAllDirectives(tNode) ==
  LET indexes == [k \in 1..(tNode.directiveEnd - tNode.directiveStart) |->
                    tNode.directiveStart + k - 1]
  IN [ev |-> "instantiateAllDirectives",
      lViews |-> SelectSeq([k \in DOMAIN indexes |-> tNode.data[indexes[k]]], isComponentDef)]

\* def.setInput !== null
hasSetInput(type) == DirectiveDef(type).setInput

RECURSIVE setInputsForPropertyFrom(_, _, _, _, _)
\* setInputsForProperty: its loop from inputs[i] on (i counts from 1)
setInputsForPropertyFrom(data, inputs, i, publicName, value) ==
  IF i > Len(inputs) THEN <<>>
  ELSE LET index == inputs[i]
           privateName == inputs[i + 1]
       IN <<[index |-> index, privateName |-> privateName, value |-> value,
             by |-> IF hasSetInput(data[index]) THEN "def.setInput" ELSE "assignment"]>>
          \o setInputsForPropertyFrom(data, inputs, i + 2, publicName, value)

\* setInputsForProperty(tView, lView, inputs, publicName, value): the writes
\* to the directive instances, in order
setInputsForProperty(data, inputs, publicName, value) ==
  setInputsForPropertyFrom(data, inputs, 1, publicName, value)

\* The export names a local ref may give
ExportNames == {"", "x", "constructor", "none"}

\* The names of the local refs, in template order
RefNames == <<"ref1", "ref2", "ref3">>

\* localRefs as the template gives them: name, export, name, export, ...
LocalRefs ==
  {[j \in 1..(2 * Len(e)) |-> IF j % 2 = 1 THEN RefNames[(j + 1) \div 2] ELSE e[j \div 2]] :
     e \in UNION {[1..k -> ExportNames] : k \in 0..MaxLocalRefs}}

\* tView.directiveRegistry: no def twice
Registries ==
  {r \in UNION {[1..n -> RegistryDefs] : n \in 0..MaxRegistry} :
     \A i, j \in DOMAIN r : r[i] = r[j] => i = j}

\* The node before resolveDirectives, what the call is given and the build
TNode(registry, localRefsNull, localRefs, bindingsEnabled, devMode) ==
  [ev |-> "tNode", registry |-> registry, localRefsNull |-> localRefsNull,
   localRefs |-> localRefs, bindingsEnabled |-> bindingsEnabled, devMode |-> devMode,
   dataLength |-> HEADER_OFFSET + 1]

\* The views at rest, and a node in the log
InitNode(tNode) ==
  /\ FLAGS = [v \in LViews |->
                clearCreationMode(createLViewFlags(
                  IF v = "R" THEN {"CheckAlways", "IsRoot"}
                  ELSE IF v \in ComponentViews THEN componentFlags(onPush(v, FALSE))
                  ELSE {"CheckAlways"}))]
  /\ initPhase = [v \in LViews |-> OnInitHooksToBeRun]
  /\ TRANSPLANTED_VIEWS_TO_REFRESH = [n \in LViews \cup LContainers |-> 0]
  /\ firstUpdatePass = [tv \in TViews |-> TRUE]
  /\ isInCheckNoChangesMode = FALSE
  /\ stack = <<>>
  /\ log = <<tNode>>
  /\ start = NoStart
  /\ marked = {}
  /\ ops = 0
  /\ ticks = 0
  /\ defTView = [def \in AllDefs |-> 0]
  /\ tViews = <<>>
  /\ lViews = <<>>

InitMatch ==
  \E registry \in Registries : \E bindingsEnabled, devMode, localRefsNull \in BOOLEAN :
    \E localRefs \in IF localRefsNull THEN {<<>>} ELSE LocalRefs :
      InitNode(TNode(registry, localRefsNull, localRefs, bindingsEnabled, devMode))

\* elementStart in the first create pass: resolveDirectives on the node
ResolveDirectives ==
  /\ Len(log) = 1 /\ log[1].ev = "tNode"
  /\ log' = Append(log, resolveDirectives(log[1]))
  /\ UNCHANGED <<cvars, stack>>
  /\ UNCHANGED rvars

\* ... then, on a directive host, createDirectivesInstances
InstantiateAllDirectives ==
  /\ Len(log) = 2 /\ log[1].ev = "tNode"
  /\ log[2].error = <<>> /\ log[2].hasDirectives
  /\ log[1].bindingsEnabled
  /\ log' = Append(log, instantiateAllDirectives(log[2]))
  /\ UNCHANGED <<cvars, stack>>
  /\ UNCHANGED rvars

NextMatch == ResolveDirectives \/ InstantiateAllDirectives

SpecMatch == InitMatch /\ [][NextMatch]_vars

\* The values a binding delivers
InputValues == {"one", "two"}

\* A property binding of the template sets an input of the node
SetInputsForProperty(publicName, value) ==
  /\ Len(log) >= 3 /\ log[1].ev = "tNode"
  /\ publicName \in DOMAIN log[2].inputs
  /\ log' = Append(SubSeq(log, 1, 3),
                   [ev |-> "setInputsForProperty", publicName |-> publicName, value |-> value,
                    writes |-> setInputsForProperty(log[2].data, log[2].inputs[publicName],
                                                    publicName, value)])
  /\ UNCHANGED <<cvars, stack>>
  /\ UNCHANGED rvars

\* Nodes without local refs, in either build
InitInputs ==
  \E registry \in Registries : \E devMode \in BOOLEAN :
    InitNode(TNode(registry, TRUE, <<>>, TRUE, devMode))

NextInputs ==
  \/ ResolveDirectives
  \/ InstantiateAllDirectives
  \/ \E publicName \in {"value", "other", "hostValue", "hidden"} : \E value \in InputValues :
       SetInputsForProperty(publicName, value)

SpecInputs == InitInputs /\ [][NextInputs]_vars

(***************************************************************************)
(* Host bindings: the first create pass of a template registers the host   *)
(* bindings of the directives matched on its two elements, and refreshView *)
(* runs them through processHostBindingOpCodes.  The template is drawn at  *)
(* the start and kept in the first entry of the log; the one frame of the  *)
(* stack is the view frame with its cursors.                               *)
(***************************************************************************)
\* Most directives matched on one element
MaxDirectives == 2

\* The elements of the template of Hosts, in order
Elements == <<"div", "span">>

\* The directives matched on an element
DirectiveLists == UNION {[1..n -> HostTypes] : n \in 0..MaxDirectives}

InitHostBindings ==
  /\ FLAGS = [v \in LViews |->
                clearCreationMode(createLViewFlags(
                  IF v = "R" THEN {"CheckAlways", "IsRoot"}
                  ELSE IF v \in ComponentViews THEN componentFlags(onPush(v, FALSE))
                  ELSE {"CheckAlways"}))]
  /\ initPhase = [v \in LViews |-> OnInitHooksToBeRun]
  /\ TRANSPLANTED_VIEWS_TO_REFRESH = [n \in LViews \cup LContainers |-> 0]
  /\ firstUpdatePass = [tv \in TViews |-> TRUE]
  /\ isInCheckNoChangesMode = FALSE
  /\ stack = <<>>
  /\ \E nodes \in [DOMAIN Elements -> DirectiveLists] :
       log = <<[ev |-> "template", nodes |-> nodes]>>
  /\ start = NoStart
  /\ marked = {}
  /\ ops = 0
  /\ ticks = 0
  /\ defTView = [def \in AllDefs |-> 0]
  /\ tViews = <<createTView("Hosts")>>
  /\ lViews = <<[TVIEW |-> 1, PARENT |-> 0, def |-> "Hosts",
                 FLAGS |-> createLViewFlags(componentFlags(FALSE)),
                 slots |-> createTView("Hosts").blueprint]>>

\* renderView on the view of Hosts: the template in its first create pass
FirstCreatePass ==
  /\ Len(log) = 1 /\ log[1].ev = "template" /\ stack = <<>>
  /\ tViews[1].firstCreatePass
  /\ LET st == resolveAllDirectives(Heap, 1, 1, log[1].nodes)
     IN /\ tViews' = [st.tViews EXCEPT ![1].firstCreatePass = FALSE]
        /\ lViews' = [st.lViews EXCEPT ![1].FLAGS = clearCreationMode(@)]
        /\ log' = Append(log, [ev |-> "firstCreatePass", calls |-> st.calls])
  /\ UNCHANGED <<defTView, stack>>
  /\ UNCHANGED rvars

\* The view frame that refreshView has entered: every cursor is -1
ViewFrame(pc) ==
  [fn |-> "processHostBindingOpCodes", lView |-> 1, pc |-> pc, i |-> 1,
   selectedIndex |-> -1, bindingRootIndex |-> -1, currentDirectiveIndex |-> -1]

InHostBindings == stack # <<>> /\ Top.fn = "processHostBindingOpCodes"

\* The finally clause without the reset
finallyKeepsSelectedIndex(selectedIndex) == selectedIndex

\* finally { setSelectedIndex(-1); }
finallySetSelectedIndex(selectedIndex) == -1

\* processHostBindingOpCodes is called: without opcodes it returns at once
ProcessHostBindingOpCodesCall ==
  /\ Len(log) >= 2 /\ log[1].ev = "template" /\ stack = <<>>
  /\ IF tViews[1].hostBindingOpCodes = <<>>
     THEN /\ stack' = <<ViewFrame("done")>>
          /\ log' = Append(log, [ev |-> "return", selectedIndex |-> ViewFrame("done").selectedIndex])
     ELSE /\ stack' = <<ViewFrame("loop")>>
          /\ log' = Append(log, [ev |-> "try"])
  /\ UNCHANGED cvars
  /\ UNCHANGED rvars

\* if (opCode < 0) setSelectedIndex(~opCode)
SelectOpCode ==
  /\ InHostBindings /\ Top.pc = "loop" /\ Top.i <= Len(tViews[1].hostBindingOpCodes)
  /\ tViews[1].hostBindingOpCodes[Top.i].number < 0
  /\ stack' = SetTop([Top EXCEPT !.selectedIndex =
                                   bitNot(tViews[1].hostBindingOpCodes[Top.i].number),
                                 !.i = @ + 1])
  /\ UNCHANGED <<cvars, log>>
  /\ UNCHANGED rvars

\* else: the binding root set and the host binding function called with the
\* directive instance; the function returns or throws
HostBindingOpCode ==
  /\ InHostBindings /\ Top.pc = "loop" /\ Top.i <= Len(tViews[1].hostBindingOpCodes)
  /\ tViews[1].hostBindingOpCodes[Top.i].number >= 0
  /\ \E throws \in BOOLEAN :
       LET hostBindingOpCodes == tViews[1].hostBindingOpCodes
           directiveIdx == hostBindingOpCodes[Top.i].number
           bindingRootIndx == hostBindingOpCodes[Top.i + 1].number
           hostBindingFn == hostBindingOpCodes[Top.i + 2]
           f == [Top EXCEPT !.bindingRootIndex = bindingRootIndx,
                            !.currentDirectiveIndex = directiveIdx,
                            !.i = @ + 3,
                            !.pc = IF throws THEN "throw" ELSE "loop"]
       IN /\ stack' = SetTop(f)
          /\ log' = Append(log, [ev |-> "hostBindingFn", rf |-> "Update",
                                 hostBindings |-> hostBindingFn.hostBindings,
                                 context |-> tViews[1].data[directiveIdx + 1],
                                 directiveIdx |-> directiveIdx,
                                 bindingRootIndex |-> f.bindingRootIndex,
                                 currentDirectiveIndex |-> f.currentDirectiveIndex,
                                 selectedIndex |-> f.selectedIndex,
                                 throws |-> throws])
  /\ UNCHANGED cvars
  /\ UNCHANGED rvars

\* The finally clause, after the loop or on the way of an exception
ProcessHostBindingOpCodesFinally ==
  /\ InHostBindings
  /\ \/ Top.pc = "throw"
     \/ Top.pc = "loop" /\ Top.i > Len(tViews[1].hostBindingOpCodes)
  /\ LET f == [Top EXCEPT !.selectedIndex = finallySetSelectedIndex(@), !.pc = "done"]
     IN /\ stack' = SetTop(f)
        /\ log' = Append(log, [ev |-> IF Top.pc = "throw" THEN "throw" ELSE "return",
                               selectedIndex |-> f.selectedIndex])
  /\ UNCHANGED cvars
  /\ UNCHANGED rvars

NextHostBindings ==
  \/ FirstCreatePass
  \/ ProcessHostBindingOpCodesCall
  \/ SelectOpCode
  \/ HostBindingOpCode
  \/ ProcessHostBindingOpCodesFinally

SpecHostBindings == InitHostBindings /\ [][NextHostBindings]_vars

(***************************************************************************)
(* The TNode tree of a TView in its first create pass: the instructions of *)
(* the template create the TNodes of its slots under the cursor of the     *)
(* view frame (current TNode, isParent), and i18n links nodes ahead of     *)
(* them.  The one TView is tViews[1] and the one frame of the stack is the *)
(* cursor.                                                                 *)
(***************************************************************************)
\* The slots of tView.data that the template declares
Slots == {"s1", "s2", "s3", "s4"}

\* The fields of createTNode that link the node
createTNodeLinks(tParent, type) ==
  [type |-> type, parent |-> tParent, child |-> NULL, next |-> NULL]

\* tView.data[index] === null
NoTNode == [type |-> NULL, parent |-> NULL, child |-> NULL, next |-> NULL]

\* createTNodeAtIndex with the links of the current TNode always written
createTNodeAtIndexRelinking(tView, index, type, currentTNode, isParent) ==
  LET parent == IF isParent THEN currentTNode
                ELSE IF currentTNode # NULL THEN tView.data[currentTNode].parent ELSE NULL
      created == [tView EXCEPT !.data[index] = createTNodeLinks(parent, type),
                               !.firstChild = IF @ = NULL THEN index ELSE @]
  IN IF currentTNode = NULL THEN created
     ELSE IF isParent THEN [created EXCEPT !.data[currentTNode].child = index]
     ELSE [created EXCEPT !.data[currentTNode].next = index]

\* createTNodeAtIndex(tView, index, type, name, attrs) under the cursor
\* (getCurrentTNodePlaceholderOk(), isCurrentTNodeParent()): the TView after it
createTNodeAtIndex(tView, index, type, currentTNode, isParent) ==
  LET parent == IF isParent THEN currentTNode
                ELSE IF currentTNode # NULL THEN tView.data[currentTNode].parent ELSE NULL
      tNode == createTNodeLinks(parent, type)
      created == [tView EXCEPT !.data[index] = tNode,
                               !.firstChild = IF @ = NULL THEN index ELSE @]
  IN IF currentTNode = NULL THEN created
     ELSE IF isParent
     THEN IF created.data[currentTNode].child = NULL /\ tNode.parent # NULL
          THEN [created EXCEPT !.data[currentTNode].child = index]
          ELSE created
     ELSE IF created.data[currentTNode].next = NULL
          THEN [created EXCEPT !.data[currentTNode].next = index]
          ELSE created

InitTNodes ==
  /\ FLAGS = [v \in LViews |->
                clearCreationMode(createLViewFlags(
                  IF v = "R" THEN {"CheckAlways", "IsRoot"}
                  ELSE IF v \in ComponentViews THEN componentFlags(onPush(v, FALSE))
                  ELSE {"CheckAlways"}))]
  /\ initPhase = [v \in LViews |-> OnInitHooksToBeRun]
  /\ TRANSPLANTED_VIEWS_TO_REFRESH = [n \in LViews \cup LContainers |-> 0]
  /\ firstUpdatePass = [tv \in TViews |-> TRUE]
  /\ isInCheckNoChangesMode = FALSE
  /\ stack = <<[fn |-> "template", currentTNode |-> NULL, isParent |-> TRUE]>>
  /\ log = <<>>
  /\ start = NoStart
  /\ marked = {}
  /\ ops = 0
  /\ ticks = 0
  /\ defTView = [def \in AllDefs |-> 0]
  /\ tViews = <<[firstChild |-> NULL, data |-> [index \in Slots |-> NoTNode]]>>
  /\ lViews = <<>>

InTemplate == stack # <<>> /\ Top.fn = "template"

\* The instructions that the template has executed
Executed == {log[k].index : k \in {j \in DOMAIN log : log[j].ev # "i18n"}}

\* getOrCreateTNode(tView, index, type, name, attrs), called by the instruction
\* of the slot: the node created, or the placeholder that i18n declared
\* upgraded; then setCurrentTNode(tNode, true)
GetOrCreateTNode(index) ==
  /\ InTemplate /\ index \notin Executed
  /\ LET tView == tViews[1]
         tNode == tView.data[index]
     IN IF tNode.type = NULL
        THEN /\ tViews' = <<createTNodeAtIndex(tView, index, "Element",
                                               Top.currentTNode, Top.isParent)>>
             /\ log' = Append(log, [ev |-> "createTNodeAtIndex", index |-> index,
                                    currentTNode |-> Top.currentTNode,
                                    isParent |-> Top.isParent, tView |-> tView])
        ELSE /\ tViews' = <<[tView EXCEPT !.data[index].type = "Element"]>>
             /\ log' = Append(log, [ev |-> "getOrCreateTNode", index |-> index,
                                    currentTNode |-> Top.currentTNode,
                                    isParent |-> Top.isParent, tView |-> tView])
  /\ stack' = SetTop([Top EXCEPT !.currentTNode = index, !.isParent = TRUE])
  /\ UNCHANGED <<defTView, lViews>>
  /\ UNCHANGED rvars

\* The end of an element: the cursor leaves the children of the current node,
\* or goes up to its parent
ElementEnd ==
  /\ InTemplate /\ Top.currentTNode # NULL
  /\ IF Top.isParent
     THEN stack' = SetTop([Top EXCEPT !.isParent = FALSE])
     ELSE /\ tViews[1].data[Top.currentTNode].parent # NULL
          /\ stack' = SetTop([Top EXCEPT !.currentTNode = tViews[1].data[@].parent])
  /\ UNCHANGED <<cvars, log>>
  /\ UNCHANGED rvars

\* i18n declares the node of a later slot as a placeholder under the cursor and
\* makes it the child, or the next sibling, of a node that has none
I18nLink(from, to, link) ==
  /\ InTemplate /\ from # to
  /\ tViews[1].data[from].type # NULL /\ tViews[1].data[to].type = NULL
  /\ LET tView == createTNodeAtIndex(tViews[1], to, "Placeholder",
                                     Top.currentTNode, Top.isParent)
     IN IF link = "child"
        THEN /\ tView.data[from].child = NULL
             /\ tViews' = <<[tView EXCEPT !.data[from].child = to]>>
        ELSE /\ tView.data[from].next = NULL
             /\ tViews' = <<[tView EXCEPT !.data[from].next = to]>>
  /\ log' = Append(log, [ev |-> "i18n", index |-> to, currentTNode |-> Top.currentTNode,
                         isParent |-> Top.isParent, tView |-> tViews[1]])
  /\ UNCHANGED <<defTView, lViews, stack>>
  /\ UNCHANGED rvars

NextTNodes ==
  \/ \E index \in Slots : GetOrCreateTNode(index)
  \/ ElementEnd
  \/ \E from, to \in Slots, link \in {"child", "next"} : I18nLink(from, to, link)

SpecTNodes == InitTNodes /\ [][NextTNodes]_vars

(***************************************************************************)
(* Property bindings: in update mode the template of B sets a property on  *)
(* the host of its child component K, or on a node that hosts no           *)
(* component, when the bound value has changed.  K is OnPush or not, and   *)
(* the embedder detaches and reattaches it.                                *)
(***************************************************************************)
\* markDirtyIfOnPush that never marks
markDirtyIfOnPushNever(F, childComponentLView) == F

\* markDirtyIfOnPush(lView, viewIndex), on the component view of the index
markDirtyIfOnPush(F, childComponentLView) ==
  IF "CheckAlways" \notin F[childComponentLView]
  THEN [F EXCEPT ![childComponentLView] = @ \cup {"Dirty"}]
  ELSE F

\* elementPropertyInternal: [F |-> the flags after it, written |-> what it
\* wrote to]; tNode.inputs says whether the property is an input of a directive
elementPropertyInternal(F, tNode, nativeOnly) ==
  IF ~nativeOnly /\ tNode.inputs
  THEN [F |-> IF tNode.isComponentHost THEN markDirtyIfOnPush(F, tNode.index) ELSE F,
        written |-> "setInputsForProperty"]
  ELSE [F |-> F, written |-> "renderer.setProperty"]

\* The nodes that carry a property binding, all in the template of B: the
\* hosts of its child components and a node that hosts no component
BoundTNodes(lView) ==
  IF lView # "B" THEN {}
  ELSE {[index |-> c, isComponentHost |-> TRUE, inputs |-> i] :
          c \in Range(components(lView)), i \in BOOLEAN}
       \cup {[index |-> NULL, isComponentHost |-> FALSE, inputs |-> i] : i \in BOOLEAN}

InitBindings ==
  /\ \E onPushB, onPushK \in BOOLEAN :
       FLAGS = [v \in LViews |->
                  clearCreationMode(createLViewFlags(
                    IF v = "R" THEN {"CheckAlways", "IsRoot"}
                    ELSE IF v = "K" THEN componentFlags(onPushK)
                    ELSE IF v \in ComponentViews THEN componentFlags(onPush(v, onPushB))
                    ELSE {"CheckAlways"}))]
  /\ initPhase = [v \in LViews |-> OnInitHooksToBeRun]
  /\ TRANSPLANTED_VIEWS_TO_REFRESH = [n \in LViews \cup LContainers |-> 0]
  /\ firstUpdatePass = [tv \in TViews |-> TRUE]
  /\ isInCheckNoChangesMode = FALSE
  /\ stack = <<>>
  /\ log = <<>>
  /\ start = NoStart
  /\ marked = {}
  /\ ops = 0
  /\ ticks = 0
  /\ defTView = [def \in AllDefs |-> 0]
  /\ tViews = <<>>
  /\ lViews = <<>>

\* executeTemplate(Update) with a property binding whose value has changed
ExecuteTemplateBinding ==
  /\ AtStep("executeTemplate") /\ ~Top.cnc
  /\ TViewOf(TVIEW(Top.lView)).template
  /\ \E tNode \in BoundTNodes(Top.lView), nativeOnly \in BOOLEAN :
       LET done == elementPropertyInternal(FLAGS, tNode, nativeOnly)
           e == Event(Top, "template")
       IN /\ FLAGS' = done.F
          /\ log' = log \o <<e, [ev |-> "elementPropertyInternal", lView |-> e.lView,
                                 pass |-> e.pass, via |-> e.via, from |-> e.from,
                                 flags |-> e.flags, cnt |-> e.cnt,
                                 firstUpdatePass |-> e.firstUpdatePass,
                                 initPhase |-> e.initPhase,
                                 tNode |-> tNode, nativeOnly |-> nativeOnly,
                                 written |-> done.written,
                                 before |-> IF tNode.isComponentHost THEN FLAGS[tNode.index] ELSE {},
                                 after |-> IF tNode.isComponentHost THEN done.F[tNode.index] ELSE {}]>>
  /\ stack' = SetTop(NextStatement(Top))
  /\ UNCHANGED cvars
  /\ UNCHANGED <<initPhase, TRANSPLANTED_VIEWS_TO_REFRESH, firstUpdatePass,
                 isInCheckNoChangesMode, start, marked, ops, ticks>>

NextBindings ==
  \/ Detach("K")
  \/ Reattach("K")
  \/ DetectChanges
  \/ DetectChangesBegin
  \/ DetectChangesFinally
  \/ RefreshViewEnter
  \/ ExecuteTemplate
  \/ ExecuteTemplateBinding
  \/ PreOrderHooks
  \/ MarkTransplantedViewsForRefresh
  \/ RefreshEmbeddedViews
  \/ RefreshContentQueries
  \/ ContentHooks
  \/ ProcessHostBindingOpCodes
  \/ RefreshChildComponents
  \/ ExecuteViewQueryFn
  \/ ViewHooks
  \/ ResetFlags
  \/ LeaveView
  \/ DirtyViewEmbedded
  \/ DirtyViewComponents

SpecBindings == InitBindings /\ [][NextBindings]_vars

(***************************************************************************)
(* Properties                                                              *)
(***************************************************************************)
ContentHookEvents == {"contentHooks", "contentCheckHooks"}
ViewHookEvents == {"viewHooks", "viewCheckHooks"}
PreOrderHookEvents == {"preOrderHooks", "preOrderCheckHooks"}

\* Events of the refreshView executions started for the child components of the
\* refreshView execution p (directly or through refreshContainsDirtyView)
FromChildComponents(e, p) ==
  e.from = p /\ e.ev # "refreshComponent"
  /\ e.via \in {"refreshComponent", "refreshContainsDirtyView"}

\* The top-level call has returned
Returned == Idle /\ start.active

\* C1: within one refreshView execution the content hook schedule runs strictly
\* before the view hook schedule, and processHostBindingOpCodes runs strictly
\* before any child component of tView.components is refreshed.  (The log only
\* grows during a call, so each event is compared with the events before it
\* when it is the newest.)
C1_RefreshOrdering ==
  log # <<>> =>
    LET i == Len(log)
        e == log[i]
        Before(evs, p) == \E j \in 1..(i - 1) : log[j].ev \in evs /\ log[j].pass = p
    IN  /\ e.ev \in ContentHookEvents => ~Before(ViewHookEvents, e.pass)
        /\ e.ev \in ViewHookEvents =>
             (TViewOf(TVIEW(e.lView)).contentHooks => Before(ContentHookEvents, e.pass))
        /\ e.ev = "processHostBindingOpCodes" =>
             \A j \in 1..(i - 1) :
               ~(log[j].ev = "refreshComponent" /\ log[j].pass = e.pass)
               /\ ~FromChildComponents(log[j], e.pass)
        /\ (e.ev = "refreshComponent" \/ FromChildComponents(e, e.from)) =>
             Before({"processHostBindingOpCodes"}, e.from)

\* A refreshView execution that ran content hooks, then host bindings, then
\* refreshed a child component, then ran view hooks.
C1_Witness ==
  \E i \in DOMAIN log :
    /\ log[i].ev = "contentHooks"
    /\ \E j \in i..Len(log) :
         /\ log[j].ev = "processHostBindingOpCodes" /\ log[j].pass = log[i].pass
         /\ \E k \in j..Len(log) :
              /\ log[k].ev = "enterView" /\ log[k].via = "refreshComponent"
              /\ log[k].from = log[i].pass
              /\ \E l \in k..Len(log) :
                   log[l].ev = "viewHooks" /\ log[l].pass = log[i].pass

\* Among the events before the newest:
LeftBefore(u, p) ==
  \E j \in 1..(Len(log) - 1) :
    log[j].ev = "leaveView" /\ log[j].lView = u /\ log[j].from = p

EventBefore(evs, p) ==
  \E j \in 1..(Len(log) - 1) : log[j].ev \in evs /\ log[j].pass = p

\* C2: the content queries of a view are refreshed after all its embedded views
\* have been refreshed and before its content hooks; its update-mode view query
\* runs after every child component has been refreshed and before its view hooks.
C2_QueryOrdering ==
  log # <<>> =>
    LET i == Len(log)
        e == log[i]
        tView == TViewOf(TVIEW(e.lView))
    IN  /\ e.ev = "refreshContentQueries" =>
             /\ \A u \in Range(Flatten(containersOf(e.lView), FALSE)) :
                  viewAttachedToChangeDetector(u) => LeftBefore(u, e.pass)
             /\ ~EventBefore(ContentHookEvents, e.pass)
        /\ e.via = "refreshEmbeddedViews" =>
             ~EventBefore({"refreshContentQueries"}, e.from)
        /\ e.ev \in ContentHookEvents =>
             (tView.contentQueries => EventBefore({"refreshContentQueries"}, e.pass))
        /\ e.ev = "executeViewQueryFn" =>
             /\ \A c \in Range(components(e.lView)) :
                  \E j \in 1..(i - 1) :
                    /\ log[j].ev = "refreshComponent" /\ log[j].lView = c
                    /\ log[j].pass = e.pass
                    /\ log[j].via = "refreshView" => LeftBefore(c, e.pass)
             /\ \A j \in 1..(i - 1) :
                  (log[j].ev = "enterView" /\ log[j].from = e.pass) =>
                    \E k \in j..(i - 1) : log[k].ev = "leaveView" /\ log[k].pass = j
             /\ ~EventBefore(ViewHookEvents, e.pass)
        /\ (e.ev = "refreshComponent" \/ FromChildComponents(e, e.from)) =>
             ~EventBefore({"executeViewQueryFn"}, e.from)
        /\ e.ev \in ViewHookEvents =>
             (tView.viewQuery => EventBefore({"executeViewQueryFn"}, e.pass))

\* A view with content queries, a view query, an embedded view and a child
\* component, all refreshed in one execution of refreshView
C2_Witness ==
  \E j \in DOMAIN log :
    /\ log[j].ev = "refreshContentQueries"
    /\ \E i \in 1..j : /\ log[i].ev = "leaveView" /\ log[i].via = "refreshEmbeddedViews"
                       /\ log[i].from = log[j].pass
    /\ \E l \in j..Len(log) :
         /\ log[l].ev = "executeViewQueryFn" /\ log[l].pass = log[j].pass
         /\ \E k \in j..l : /\ log[k].ev = "leaveView" /\ log[k].via = "refreshComponent"
                            /\ log[k].from = log[j].pass
         /\ \E m \in l..Len(log) : log[m].ev = "viewHooks" /\ log[m].pass = log[j].pass

RECURSIVE ViewsAbove(_)
ViewsAbove(v) ==
  IF getLViewParent(v) = NULL THEN {}
  ELSE {getLViewParent(v)} \cup ViewsAbove(getLViewParent(v))

\* C3: refreshView is never invoked on an embedded or component view that is
\* not attached, and nothing below such a view is visited: every view the
\* traversal is in, and every view anything has been executed on, is attached
\* and so is every view above it.
C3_OnlyAttachedViewsVisited ==
  /\ \A k \in DOMAIN stack :
       stack[k].fn \in {"refreshView", "refreshContainsDirtyView"} =>
         \A a \in {stack[k].lView} \cup ViewsAbove(stack[k].lView) :
           viewAttachedToChangeDetector(a)
  /\ log # <<>> =>
       LET e == log[Len(log)]
       IN e.ev # "refreshComponent" =>
            \A a \in {e.lView} \cup ViewsAbove(e.lView) : viewAttachedToChangeDetector(a)

\* A tick that refreshed the root and D while B and G were detached
C3_Witness ==
  /\ Returned
  /\ ~viewAttachedToChangeDetector("B") /\ ~viewAttachedToChangeDetector("G")
  /\ \E i, j \in DOMAIN log :
       /\ log[i].ev = "leaveView" /\ log[i].lView = "D"
       /\ log[j].ev = "leaveView" /\ log[j].lView = "R"

\* The test of refreshComponent, on the flags recorded when it was called
ToBeRefreshed(flags) ==
  "Attached" \in flags /\ flags \cap {"CheckAlways", "Dirty"} # {}

\* C4: refreshComponent invokes refreshView on the component view exactly when
\* it is attached and has CheckAlways or Dirty; for an attached child with
\* neither flag, RefreshTransplantedView clear and a counter of 0 nothing is
\* executed in the child: no event of the child or of a view below it follows
\* and the flags and init phase of the child stay as they were.
C4_RefreshComponent ==
  log # <<>> =>
    LET i == Len(log)
        e == log[i]
        Quiet(d) == /\ d.ev = "refreshComponent" /\ "Attached" \in d.flags
                    /\ d.flags \cap {"CheckAlways", "Dirty", "RefreshTransplantedView"} = {}
                    /\ d.cnt = 0
    IN  /\ e.ev = "refreshComponent" =>
             /\ (e.via = "refreshView") <=> ToBeRefreshed(e.flags)
             /\ IF ToBeRefreshed(e.flags)
                THEN Top.fn = "refreshView" /\ Top.lView = e.lView /\ Top.pc = 0
                ELSE \A k \in DOMAIN stack :
                       ~(stack[k].fn = "refreshView" /\ stack[k].lView = e.lView)
        /\ (e.ev = "enterView" /\ e.lView \in ComponentViews) =>
             /\ i > 1 /\ log[i - 1].ev = "refreshComponent"
             /\ log[i - 1].lView = e.lView /\ ToBeRefreshed(log[i - 1].flags)
        /\ \A j \in 1..i :
             Quiet(log[j]) =>
               /\ log[j].via = ""
               /\ j < i => log[j].lView \notin {e.lView} \cup ViewsAbove(e.lView)
               /\ FLAGS[log[j].lView] = log[j].flags
               /\ initPhase[log[j].lView] = start.initPhase[log[j].lView]

\* A tick in which refreshComponent refreshed one child and left alone another
\* that was attached, neither CheckAlways nor Dirty, with a counter of 0
C4_Witness ==
  /\ Returned
  /\ \E i, j \in DOMAIN log :
       /\ log[i].ev = "refreshComponent" /\ log[i].via = "refreshView"
       /\ log[j].ev = "refreshComponent" /\ log[j].via = ""
       /\ "Attached" \in log[j].flags /\ log[j].cnt = 0
       /\ log[j].flags \cap {"CheckAlways", "Dirty"} = {}

visited(v) == \E i \in DOMAIN log : log[i].ev = "enterView" /\ log[i].lView = v

RECURSIVE NodesAbove(_)
NodesAbove(n) == IF PARENT(n) = NULL THEN {} ELSE {PARENT(n)} \cup NodesAbove(PARENT(n))

\* The views below n flagged in the flags F
FlaggedBelow(F, n) ==
  {v \in LViews : n \in NodesAbove(v) /\ "RefreshTransplantedView" \in F[v]}

C7_NetZero ==
  Returned =>
    /\ TRANSPLANTED_VIEWS_TO_REFRESH = start.cnt
    /\ \A v \in LViews : "RefreshTransplantedView" \in FLAGS[v]
                           <=> "RefreshTransplantedView" \in start.FLAGS[v]

\* C7: across a complete tick increments and decrements are paired with the
\* flags: every counter ends the tick changed by the change in the number of
\* flagged views below it, and an embedded view that is attached with all the
\* views above it and is declared in its insertion view or above it ends the
\* tick with its flag clear.
C7_PairedWithFlags ==
  Returned =>
    /\ \A n \in LViews \cup LContainers :
         TRANSPLANTED_VIEWS_TO_REFRESH[n] - start.cnt[n] =
           Cardinality(FlaggedBelow(FLAGS, n)) - Cardinality(FlaggedBelow(start.FLAGS, n))
    /\ \A v \in EmbeddedViews :
         /\ DECLARATION_VIEW(v) \in ViewsAbove(v)
         /\ \A a \in {v} \cup ViewsAbove(v) : viewAttachedToChangeDetector(a)
         => "RefreshTransplantedView" \notin FLAGS[v]

\* A tick that flagged and refreshed F and left E flagged, with its +1 counted
C7_Witness ==
  /\ Returned
  /\ "RefreshTransplantedView" \in FLAGS["E"]
  /\ "RefreshTransplantedView" \notin start.FLAGS["E"]
  /\ TRANSPLANTED_VIEWS_TO_REFRESH["cK"] = start.cnt["cK"] + 1
  /\ \E i, j \in DOMAIN log :
       /\ i < j /\ log[i].lView = "F" /\ log[j].lView = "F"
       /\ "RefreshTransplantedView" \in log[i].flags
       /\ "RefreshTransplantedView" \notin log[j].flags

\* Scenario 5 in this tree: the template of F is declared in R and inserted in
\* the container cB of the component view B.
StepIndex(name) == CHOOSE k \in DOMAIN RefreshSteps : RefreshSteps[k] = name

\* refreshView of A is past its call of markTransplantedViewsForRefresh
MarkedIn(A) ==
  \E k \in DOMAIN stack :
    /\ stack[k].fn = "refreshView" /\ stack[k].lView = A
    /\ stack[k].pc > StepIndex("markTransplantedViewsForRefresh")

\* refreshComponent has been called on B and has returned
Reached(B) ==
  /\ \E i \in DOMAIN log : log[i].ev = "refreshComponent" /\ log[i].lView = B
  /\ \A k \in DOMAIN stack :
       stack[k].fn \in {"refreshView", "refreshContainsDirtyView"} =>
         stack[k].lView \notin ({B} \cup {v \in LViews : B \in ViewsAbove(v)})

InsertionNotRefreshed(B) ==
  /\ start.active /\ "Attached" \in start.FLAGS[B]
  /\ start.FLAGS[B] \cap {"CheckAlways", "Dirty"} = {}

Scenario5(A, B, c, T) ==
  /\ (MarkedIn(A) /\ ~\E i \in DOMAIN log : log[i].lView = B) =>
       /\ "RefreshTransplantedView" \in FLAGS[T]
       /\ TRANSPLANTED_VIEWS_TO_REFRESH[c] = start.cnt[c] + 1
  /\ Reached(B) =>
       /\ \E i \in DOMAIN log :
            /\ log[i].ev = "refreshComponent" /\ log[i].lView = B
            /\ log[i].cnt > 0 /\ log[i].via = "refreshContainsDirtyView"
       /\ \E i \in DOMAIN log :
            /\ log[i].ev = "template" /\ log[i].lView = T
            /\ log[i].via = "refreshContainsDirtyView"
       /\ "RefreshTransplantedView" \notin FLAGS[T]
       /\ TRANSPLANTED_VIEWS_TO_REFRESH[c] = 0

\* The statement of C8 as written: whatever the state of the embedded view
C8_Scenario5AsWritten ==
  InsertionNotRefreshed("B") => Scenario5("R", "B", "cB", "F")

\* C8: with B attached and neither CheckAlways nor Dirty, and the embedded view
\* attached and not flagged when the tick begins: refreshing A flags the
\* embedded view and increments the counter of B's container; when B is reached
\* refreshComponent sees a counter above 0 and, through
\* refreshContainsDirtyView, the template of the embedded view is executed, its
\* flag cleared and the counter back at 0.
C8_Scenario5 ==
  (/\ InsertionNotRefreshed("B")
   /\ "Attached" \in start.FLAGS["F"]
   /\ "RefreshTransplantedView" \notin start.FLAGS["F"])
  => Scenario5("R", "B", "cB", "F")

\* The scenario has run to its end
C8_Witness ==
  /\ Returned /\ InsertionNotRefreshed("B")
  /\ "Attached" \in start.FLAGS["F"]
  /\ "RefreshTransplantedView" \notin start.FLAGS["F"]
  /\ \E i \in DOMAIN log :
       /\ log[i].ev = "template" /\ log[i].lView = "F"
       /\ log[i].via = "refreshContainsDirtyView"
       /\ "RefreshTransplantedView" \in log[i].flags
       /\ log[i].cnt = 0

InCheckNoChanges == start.active /\ start.fn = "checkNoChangesInternal"

\* The statement of C9 as written: in check-no-changes mode Dirty and
\* FirstLViewPass are never cleared and tView.firstUpdatePass never flipped.
C9_NothingReset ==
  InCheckNoChanges =>
    /\ \A v \in LViews :
         start.FLAGS[v] \cap {"Dirty", "FirstLViewPass"} \subseteq FLAGS[v]
    /\ firstUpdatePass = start.firstUpdatePass

\* C9: in check-no-changes mode refreshView never clears Dirty or
\* FirstLViewPass, whatever the state of the view on entry; it does set
\* tView.firstUpdatePass to false when it completes, as in the normal mode.
C9_DirtyKept ==
  InCheckNoChanges =>
    /\ \A v \in LViews :
         start.FLAGS[v] \cap {"Dirty", "FirstLViewPass"} \subseteq FLAGS[v]
    /\ \A i \in DOMAIN log :
         log[i].ev = "leaveView" => ~firstUpdatePass[TVIEW(log[i].lView)]

\* checkNoChangesInternal has refreshed K, Dirty and in its first pass, for the
\* first time
C9_Witness ==
  /\ Returned /\ InCheckNoChanges
  /\ {"Dirty", "FirstLViewPass"} \subseteq FLAGS["K"]
  /\ start.firstUpdatePass[TVIEW("K")]
  /\ \E i \in DOMAIN log : log[i].ev = "leaveView" /\ log[i].lView = "K"

\* C10: in check-no-changes mode no hook schedule is executed, the init phase
\* of no view advances, and rendererFactory.begin and rendererFactory.end are
\* not called.
C10_NoHooksNoRenderer ==
  InCheckNoChanges =>
    /\ initPhase = start.initPhase
    /\ log # <<>> =>
         log[Len(log)].ev \notin
           PreOrderHookEvents \cup ContentHookEvents \cup ViewHookEvents
             \cup {"rendererFactory.begin", "rendererFactory.end"}

\* checkNoChangesInternal has returned after refreshing views whose init hooks
\* are still to be run
C10_Witness ==
  /\ Returned /\ InCheckNoChanges
  /\ initPhase["B"] = OnInitHooksToBeRun
  /\ \E i, j \in DOMAIN log :
       /\ log[i].ev = "leaveView" /\ log[i].lView = "B"
       /\ log[j].ev = "leaveView" /\ log[j].lView = "R"

\* The call before the current one was detectChangesInternal, with nothing
\* between the two: the current one closes the cycle
ClosesCycle == InCheckNoChanges /\ start.before.fn = "detectChangesInternal"

\* The statement of C11 as written: every Dirty flag set by the hook's call of
\* markViewDirty, on the view and on the views above it, is set when the cycle
\* ends.
C11_AllFlagsSurvive ==
  (Returned /\ ClosesCycle) =>
    \A m \in start.before.hookMarked :
      \A a \in {m} \cup ViewsAbove(m) : "Dirty" \in FLAGS[a]

\* C11: the Dirty flag that a markViewDirty call made from an AfterViewInit
\* hook sets on the view it is called on survives the cycle: it is set from
\* the call to the end of the normal pass and throughout the check-no-changes
\* pass that follows.  A view the normal pass refreshed and no hook marked
\* ends that pass without Dirty, the views above the marked one included.
C11_MarkedViewStaysDirty ==
  /\ (start.active /\ start.fn = "detectChangesInternal") =>
       \A k \in DOMAIN log :
         log[k].ev = "markViewDirty" => "Dirty" \in FLAGS[log[k].lView]
  /\ ClosesCycle =>
       \A m \in start.before.hookMarked : "Dirty" \in FLAGS[m]
  /\ (Returned /\ start.fn = "detectChangesInternal") =>
       \A a \in LastCall.refreshed \ LastCall.hookMarked : "Dirty" \notin FLAGS[a]

\* A cycle has ended in which an AfterViewInit hook of B marked K dirty: K is
\* Dirty, B and the root are not
C11_Witness ==
  /\ Returned /\ ClosesCycle
  /\ start.before.hookMarked = {"K"}
  /\ "Dirty" \in FLAGS["K"] /\ "Dirty" \notin FLAGS["B"] /\ "Dirty" \notin FLAGS["R"]
  /\ "K" \in LastCall.refreshed

\* C12: a refreshView that completes outside check-no-changes mode leaves the
\* view without Dirty and FirstLViewPass, a view marked dirty before it
\* included; and a top-level call that begins with an OnPush component view not
\* Dirty never invokes refreshView on that view, whatever it does to the parent.
C12_RefreshedThenSkipped ==
  Returned =>
    /\ start.fn = "detectChangesInternal" =>
         \A v \in LastCall.refreshed : FLAGS[v] \cap {"Dirty", "FirstLViewPass"} = {}
    /\ \A v \in ComponentViews :
         ("CheckAlways" \notin FLAGS[v] /\ "Dirty" \notin start.FLAGS[v]) => ~visited(v)

\* K was marked dirty and refreshed by one detectChangesInternal; the next one
\* refreshed its parent B and did not invoke refreshView on K
C12_Witness ==
  /\ Returned /\ start.fn = "detectChangesInternal"
  /\ start.before.fn = "detectChangesInternal"
  /\ "K" \in start.before.marked /\ "K" \in start.before.refreshed
  /\ "B" \in LastCall.refreshed /\ ~visited("K")
  /\ FLAGS["K"] \cap {"Dirty", "FirstLViewPass"} = {}

\* C13: refreshView on an LView whose Destroyed flag is set returns at once: no
\* view frame is pushed and nothing is executed (no event is logged), no child
\* is visited (the call is popped, none is pushed), and no LView flag, init
\* phase, TView flag or counter changes.
C13_DestroyedIsNoOp ==
  [][(InRefreshView /\ Top.pc = 0 /\ "Destroyed" \in FLAGS[Top.lView]) =>
       /\ stack' = Pop
       /\ UNCHANGED <<FLAGS, initPhase, TRANSPLANTED_VIEWS_TO_REFRESH, firstUpdatePass,
                      isInCheckNoChangesMode, log>>]_vars

\* refreshView(D) has completed with G destroyed and reattached: its
\* refreshEmbeddedViews called refreshView on G, of which nothing was recorded
C13_Witness ==
  /\ Returned
  /\ {"Destroyed", "Attached"} \subseteq FLAGS["G"]
  /\ "D" \in LastCall.refreshed
  /\ ~\E k \in DOMAIN log : log[k].lView = "G"

\* The passes of the call that an error ended, as their leaveView events
AbortedPasses == {k \in DOMAIN log : log[k].ev = "leaveView after throw"}

\* The enterView event of the pass that event k belongs to
EntryOf(k) == log[log[k].pass]

InitSchedules == {"preOrderHooks", "contentHooks", "viewHooks"}
CheckSchedules == {"preOrderCheckHooks", "contentCheckHooks", "viewCheckHooks"}

\* The refreshView step that makes the transition out of the given phase, and
\* the init+check schedule that it runs
StepOfPhase(phase) ==
  CASE phase = OnInitHooksToBeRun -> "preOrderHooks"
    [] phase = AfterContentInitHooksToBeRun -> "contentHooks"
    [] phase = AfterViewInitHooksToBeRun -> "viewHooks"
    [] OTHER -> ""

\* The passes of the call that completed, as their leaveView events
CompletedPasses == {k \in DOMAIN log : log[k].ev = "leaveView"}

\* C20 as stated: the three transitions of a view are all made inside one pass,
\* the first to complete outside check-no-changes mode, so that a completed
\* pass finds the view in the first phase or with the init phase completed.
C20_AllInOnePass ==
  ~InCheckNoChanges =>
     \A k \in CompletedPasses :
       /\ EntryOf(k).initPhase \in {OnInitHooksToBeRun, InitPhaseCompleted}
       /\ log[k].initPhase = InitPhaseCompleted

\* What the passes recorded in the log found and left as init phase
PhaseOfPasses ==
  /\ ~InCheckNoChanges =>
       \A k \in CompletedPasses :
         log[k].initPhase = InitPhaseCompleted /\ EntryOf(k).initPhase <= log[k].initPhase
  /\ InCheckNoChanges => initPhase = start.initPhase
  /\ \A k \in DOMAIN log :
       (log[k].ev \in InitSchedules => EntryOf(k).initPhase # InitPhaseCompleted)
       /\ (log[k].ev \in CheckSchedules => EntryOf(k).initPhase = InitPhaseCompleted)

\* A step that changes the init phase of a view
PhaseStep ==
  \A v \in LViews :
    initPhase'[v] # initPhase[v] =>
      /\ initPhase'[v] = initPhase[v] + 1
      /\ InRefreshView /\ Top.lView = v /\ ~Top.cnc
      /\ AtStep(StepOfPhase(initPhase[v]))
      /\ TViewOf(TVIEW(v))[StepOfPhase(initPhase[v])] =>
           log' = Append(log, Event(Top, StepOfPhase(initPhase[v])))

\* C20: the init phase of a view only moves one phase forward, in the step of
\* a pass outside check-no-changes mode that belongs to the phase, right after
\* that step's init+check schedule (if the TView has one) ran; a pass that
\* completes outside check-no-changes mode leaves the phase Completed, having
\* made the transitions that were left on its entry, which are fewer than
\* three after a pass that threw; a pass entered with the phase Completed runs
\* check-only schedules, and any other pass the init+check schedules.
C20_InitPhaseAdvances == []PhaseOfPasses /\ [][PhaseStep]_vars

\* The content hooks of B threw in the call before, after the first
\* transition; this call's pass of B made the other two and completed
C20_Witness ==
  /\ Returned
  /\ \E k \in CompletedPasses :
       /\ log[k].lView = "B"
       /\ EntryOf(k).initPhase = AfterContentInitHooksToBeRun
       /\ log[k].initPhase = InitPhaseCompleted
       /\ \E j \in DOMAIN log : log[j].pass = log[k].pass /\ log[j].ev = "viewHooks"

\* The renderView calls of the current top-level call that an error ended
FailedRenders == {k \in DOMAIN log : log[k].ev = "rethrow"}

\* The created views that a renderView call on the given stack is rendering
RenderingIn(stk) == {stk[k].lView : k \in {j \in DOMAIN stk : stk[j].fn = "renderView"}}

\* C14: firstCreatePass and firstUpdatePass of every TView are true when
\* createTView returns it, and no step of renderView or refreshView, completing
\* or failing, sets either of them again once it is false.
C14_PassFlagsMonotonic ==
  [][/\ \A t \in DOMAIN tViews :
          /\ t \in DOMAIN tViews'
          /\ ~tViews[t].firstCreatePass => ~tViews'[t].firstCreatePass
          /\ ~tViews[t].firstUpdatePass => ~tViews'[t].firstUpdatePass
     /\ \A t \in DOMAIN tViews' \ DOMAIN tViews :
          tViews'[t].firstCreatePass /\ tViews'[t].firstUpdatePass]_vars

\* A renderView failed after the first create pass of its TView was over, a
\* view of the TView was refreshed, and both flags are false
C14_Witness ==
  /\ Idle
  /\ \E l \in DOMAIN lViews :
       /\ ~tViews[lViews[l].TVIEW].firstCreatePass
       /\ ~tViews[lViews[l].TVIEW].firstUpdatePass
       /\ ~tViews[lViews[l].TVIEW].incompleteFirstPass
       /\ defTView[lViews[l].def] = lViews[l].TVIEW
  /\ \E t \in DOMAIN tViews : tViews[t].incompleteFirstPass /\ ~tViews[t].firstCreatePass

\* C15 as stated: whichever step of renderView fails in the first create pass of
\* the TView, the TView ends with incompleteFirstPass set and firstCreatePass
\* clear.
C15_AnyFailureMarksIncomplete ==
  \A k \in FailedRenders :
    log[k].entry => (log[k].incompleteFirstPass /\ ~log[k].firstCreatePass)

\* What the failed renderView calls left in their TViews
FailedRendersMarked ==
  \A k \in FailedRenders :
    /\ ~log[k].firstCreatePass
    /\ log[k].entry =>
         (log[k].incompleteFirstPass <=> log[k].step \in {"viewQuery", "template"})

\* The step in which an error reaches a renderView call throws it on
ErrorThrownOn ==
  (InError /\ Len(stack) > 1 /\ Caller.fn = "renderView") =>
     (stack' = Append(Callers, Top))

\* C15: a renderView that fails leaves firstCreatePass false and throws the
\* error on to its caller; it sets incompleteFirstPass when, in the first create
\* pass of the TView, the create-mode view query or the create-mode template
\* failed, and leaves it false when a static query or the rendering of a child
\* component failed, firstCreatePass being false by then.
C15_FailureInCreatePass == []FailedRendersMarked /\ [][ErrorThrownOn]_vars

\* The template of a Child failed in its first create pass, which marked its
\* TView, and so failed the renderView of its Parent, whose TView is not marked
C15_Witness ==
  /\ Idle
  /\ \E k \in FailedRenders :
       /\ log[k].entry /\ log[k].step = "renderChildComponents"
       /\ ~log[k].incompleteFirstPass /\ ~log[k].firstCreatePass
       /\ \E j \in FailedRenders :
            /\ j < k /\ log[j].entry /\ log[j].step = "template"
            /\ log[j].incompleteFirstPass

\* A step as seen from the component defs and the TViews
TViewsStep ==
  /\ \A t \in DOMAIN tViews : tViews[t].incompleteFirstPass => tViews'[t].incompleteFirstPass
  /\ \A l \in DOMAIN lViews' \ DOMAIN lViews :
       /\ lViews'[l].TVIEW = defTView'[lViews'[l].def]
       /\ IF defTView[lViews'[l].def] # 0
             /\ ~tViews[defTView[lViews'[l].def]].incompleteFirstPass
          THEN defTView'[lViews'[l].def] = defTView[lViews'[l].def]
          ELSE /\ defTView'[lViews'[l].def] \notin DOMAIN tViews
               /\ tViews'[defTView'[lViews'[l].def]] = createTView(lViews'[l].def)
  /\ \A def \in Defs :
       defTView'[def] # defTView[def] =>
         \E l \in DOMAIN lViews' \ DOMAIN lViews : lViews'[l].def = def

\* C16: no step clears incompleteFirstPass of a TView; a component view is
\* created with the TView that getOrCreateComponentTView returns for its def,
\* which is the TView the def had if that is not marked incomplete, and else a
\* new TView, stored in the def, with firstCreatePass true and
\* incompleteFirstPass false.
C16_IncompleteTViewReplaced == [][TViewsStep]_vars

\* A def whose first TView is marked incomplete has a second TView, not marked,
\* which two views share
C16_Witness ==
  /\ Idle
  /\ \E t \in DOMAIN tViews :
       /\ tViews[t].incompleteFirstPass
       /\ defTView[tViews[t].def] # t
       /\ ~tViews[defTView[tViews[t].def]].incompleteFirstPass
       /\ \E l1, l2 \in DOMAIN lViews :
            l1 # l2 /\ lViews[l1].TVIEW = defTView[tViews[t].def]
                    /\ lViews[l2].TVIEW = defTView[tViews[t].def]

\* A step as seen from the CreationMode flags: a view whose renderView call
\* leaves the stack has the flag clear and its view frame popped
CreationModeCleared ==
  /\ \A l \in DOMAIN lViews : ~isCreationMode(l) => "CreationMode" \notin lViews'[l].FLAGS
  /\ \A l \in RenderingIn(stack) \ RenderingIn(stack') :
       /\ "CreationMode" \notin lViews'[l].FLAGS
       /\ log' # <<>>
       /\ log'[Len(log')].ev = "leaveView" /\ log'[Len(log')].lView = l

\* C18: renderView leaves with CreationMode clear and the view frame popped,
\* whether it completes or an error passes through it; no step sets
\* CreationMode on a view that has it clear, and the views being rendered are
\* views that have it set, so none enters the creation pass a second time.
C18_CreationModeClearedForGood ==
  /\ [](\A l \in RenderingIn(stack) : isCreationMode(l))
  /\ [][CreationModeCleared]_vars

\* A renderView that an error ended, and one that completed, refreshed since:
\* both views are out of creation mode
C18_Witness ==
  /\ Idle
  /\ \E k \in DOMAIN log : /\ log[k].ev = "rethrow" /\ ~isCreationMode(log[k].lView)
                           /\ log[Len(log)].ev = "leaveView"
  /\ \E l \in DOMAIN lViews : "FirstLViewPass" \notin lViews[l].FLAGS /\ ~isCreationMode(l)

\* C19 as stated: a view is in creation mode until its first refresh pass
\* completes, that is for as long as it has FirstLViewPass.
C19_CreationModeUntilRefreshed ==
  \A l \in DOMAIN lViews : "FirstLViewPass" \in lViews[l].FLAGS => isCreationMode(l)

\* A step as seen from one created view
CreationModeStep ==
  /\ \A l \in DOMAIN lViews' \ DOMAIN lViews :
       {"CreationMode", "Attached", "FirstLViewPass"} \subseteq lViews'[l].FLAGS
  /\ \A l \in DOMAIN lViews :
       ("CreationMode" \in lViews'[l].FLAGS) <=>
          (isCreationMode(l) /\ l \notin RenderingIn(stack) \ RenderingIn(stack'))

\* C19: createLView sets CreationMode, Attached and FirstLViewPass whatever flags
\* it is passed; CreationMode stays set until the renderView call on the view
\* exits, normally or with an error, and is clear from then on: every refresh
\* pass of the view, the first successful one included, finds it clear.
C19_CreationModeUntilRendered ==
  /\ [](\A l \in DOMAIN lViews : "FirstLViewPass" \notin lViews[l].FLAGS => ~isCreationMode(l))
  /\ [][CreationModeStep]_vars

\* The renderView of a view has just completed: the view is out of creation mode
\* and no refresh pass has run on it
C19_Witness ==
  /\ Idle /\ log # <<>>
  /\ log[Len(log)].ev = "leaveView"
  /\ ~\E k \in FailedRenders : TRUE
  /\ ~isCreationMode(log[Len(log)].lView)
  /\ "FirstLViewPass" \in lViews[log[Len(log)].lView].FLAGS
  /\ \E l \in DOMAIN lViews : "FirstLViewPass" \notin lViews[l].FLAGS

EventsNamed(ev) == {k \in DOMAIN log : log[k].ev = ev}

\* What a call of detectChangesInternal outside check-no-changes mode has logged
BeginAndEndOnce ==
  (start.active /\ start.fn = "detectChangesInternal") =>
     /\ EventsNamed("rendererFactory.begin") \subseteq {1}
     /\ EventsNamed("rendererFactory.end") \subseteq {Len(log)}
     /\ EventsNamed("rendererFactory.end") # {} => EventsNamed("rendererFactory.begin") = {1}
     /\ Idle => (log # <<>> /\ log[1].ev = "rendererFactory.begin"
                            /\ log[Len(log)].ev = "rendererFactory.end")
     /\ EventsNamed("rendererFactory.end") # {} => (Idle \/ Len(stack) = 1)

\* What the catch clause of detectChangesInternal has logged
ErrorHandled ==
  /\ Cardinality(EventsNamed("catch")) <= 1
  /\ (Idle /\ EventsNamed("throw") # {}) => EventsNamed("catch") # {}
  /\ \A k \in EventsNamed("catch") :
       /\ EventsNamed("throw") # {}
       /\ (log[k].notifyErrorHandler /\ log[k].errorHandler) <=>
            (k < Len(log) /\ log[k + 1].ev = "errorHandler.handleError")
  /\ EventsNamed("errorHandler.handleError") \subseteq {k + 1 : k \in EventsNamed("catch")}

\* The step in which an error reaches detectChangesInternal throws it on
ErrorRethrown ==
  (InError /\ Len(stack) > 1 /\ Caller.fn = "detectChangesInternal") =>
     (stack' = Append(Callers, Top))

\* C23: outside check-no-changes mode a call of detectChangesInternal calls
\* rendererFactory.begin once, before anything else, and rendererFactory.end
\* once, after everything else, whether the refresh completes or throws; when
\* it throws, the ErrorHandler is called exactly if notifyErrorHandler is true
\* and the injector of the LView has one, and the error is thrown on.
C23_BeginEndAndErrorHandler == [](BeginAndEndOnce /\ ErrorHandled) /\ [][ErrorRethrown]_vars

\* A refresh has thrown and the error was handed to the ErrorHandler between
\* rendererFactory.begin and rendererFactory.end
C23_Witness ==
  /\ Returned /\ start.fn = "detectChangesInternal"
  /\ Len(log) > 3
  /\ log[1].ev = "rendererFactory.begin"
  /\ log[Len(log)].ev = "rendererFactory.end"
  /\ log[Len(log) - 1].ev = "errorHandler.handleError"
  /\ log[Len(log) - 2].ev = "catch"
  /\ EventsNamed("throw") # {}

\* The view frames that the calls on the stack have pushed and not yet popped:
\* a renderView or refreshView call is in its try block from enterView on
InTryBlock(f) ==
  \/ f.fn = "renderView" /\ f.pc >= 1
  \/ f.fn = "refreshLView"

EnteredFrames(l) == {k \in DOMAIN stack : InTryBlock(stack[k]) /\ stack[k].lView = l}

\* enterView calls minus leaveView calls for the view, since the top-level call
FrameDepth(l) ==
  Cardinality({k \in EventsNamed("enterView") : log[k].lView = l})
    - Cardinality({k \in EventsNamed("leaveView") : log[k].lView = l})

\* C24: the view frames pushed and not yet popped are those of the renderView
\* and refreshView calls still in their try block, one for each; so when a call
\* has left the stack, by return or by an error passing through it, its frame
\* has been popped exactly once, an error is over a caller only when the frames
\* of the calls it left are popped, and when the top-level call is over,
\* completed or failed, the depth is what it was before.
C24_FramesBalanced ==
  /\ \A l \in DOMAIN lViews : FrameDepth(l) = Cardinality(EnteredFrames(l))
  /\ Idle => Cardinality(EventsNamed("enterView")) = Cardinality(EventsNamed("leaveView"))
  /\ \A k \in EventsNamed("leaveView") :
       \E j \in EventsNamed("enterView") : j < k /\ log[j].lView = log[k].lView

\* The renderView of a Child failed inside the renderView of its Parent: both
\* frames were popped before the error reached the embedder
C24_Witness ==
  /\ Idle
  /\ Cardinality(EventsNamed("enterView")) = 2
  /\ Cardinality(EventsNamed("leaveView")) = 2
  /\ Cardinality(FailedRenders) = 2

\* The view and the views above it, through getLViewParent
ParentChain(v) == {v} \cup ViewsAbove(v)

\* C25: markViewDirty(v) adds Dirty to the flags of v and of every view above
\* it through getLViewParent, up to the first view that has the root flag and
\* no parent, which it returns; a view with the root flag that is inserted in
\* a container does not stop the walk; it returns null when the top of the
\* chain has no root flag; the flags of every other view are as they were.
C25_MarkViewDirtyChain ==
  \A k \in EventsNamed("markViewDirty") :
    LET v == log[k].lView
        tops == {a \in ParentChain(v) : "IsRoot" \in FLAGS[a] /\ getLViewParent(a) = NULL}
    IN /\ \A a \in ParentChain(v) : FLAGS[a] = log[k].before[a] \cup {"Dirty"}
       /\ \A u \in LViews \ ParentChain(v) : FLAGS[u] = log[k].before[u]
       /\ IF tops = {} THEN log[k].root = NULL ELSE log[k].root \in tops

\* markViewDirty(G) with G a root view inserted in a container of D: the walk
\* went on through D to R, which it returned
C25_Witness ==
  /\ \E k \in EventsNamed("markViewDirty") :
       /\ log[k].lView = "G" /\ log[k].root = "R"
       /\ "Dirty" \notin log[k].before["R"]
  /\ "IsRoot" \in FLAGS["G"]
  /\ "Dirty" \in FLAGS["G"] /\ "Dirty" \in FLAGS["D"] /\ "Dirty" \in FLAGS["R"]
  /\ "Dirty" \notin FLAGS["B"]

\* C21: the data and the blueprint of every TView have the same length, in
\* every state and after every allocExpando and configureViewWithDirective call
\* of a template, those for host vars between two directives included
CallsOf(e) == IF "calls" \in DOMAIN e THEN e.calls ELSE <<>>

C21_DataAsLongAsBlueprint ==
  /\ \A t \in 1..Len(tViews) : Len(tViews[t].data) = Len(tViews[t].blueprint)
  /\ log # <<>> =>
       \A i \in 1..Len(CallsOf(log[Len(log)])) :
         CallsOf(log[Len(log)])[i].data = CallsOf(log[Len(log)])[i].blueprint

\* A template allocated host vars between two configureViewWithDirective calls
C21_Witness ==
  /\ log # <<>>
  /\ \E i \in 1..Len(CallsOf(log[Len(log)])) - 2 :
       LET calls == CallsOf(log[Len(log)])
       IN /\ calls[i].fn = "configureViewWithDirective"
          /\ calls[i + 1].fn = "allocExpando"
          /\ calls[i + 2].fn = "configureViewWithDirective"
          /\ calls[i + 2].data > HEADER_OFFSET + 2

\* C22 as written: every LView is at all times as long as the blueprint and
\* the data of its TView
C22_LViewAsLongAsBlueprint ==
  \A l \in 1..Len(lViews) :
    /\ Len(lViews[l].slots) >= Len(tViews[lViews[l].TVIEW].blueprint)
    /\ Len(lViews[l].slots) = Len(tViews[lViews[l].TVIEW].data)

\* The views whose renderView has been entered
Rendered(l) ==
  \/ ~isCreationMode(l)
  \/ \E k \in 1..Len(stack) : stack[k].fn = "renderView" /\ stack[k].lView = l

\* C22: an LView is never longer than the blueprint of its TView, and from
\* renderComponent's syncViewWithBlueprint on it is as long as the blueprint
\* and the data
C22_LViewSyncedWhenRendered ==
  \A l \in 1..Len(lViews) :
    /\ Len(lViews[l].slots) <= Len(tViews[lViews[l].TVIEW].blueprint)
    /\ Rendered(l) =>
         /\ Len(lViews[l].slots) = Len(tViews[lViews[l].TVIEW].blueprint)
         /\ Len(lViews[l].slots) = Len(tViews[lViews[l].TVIEW].data)

\* The second of two component views of one TView is being rendered, longer
\* than it was created
C22_Witness ==
  \E l \in 2..Len(lViews) :
    /\ lViews[l].TVIEW = lViews[l - 1].TVIEW
    /\ lViews[l].PARENT = lViews[l - 1].PARENT
    /\ InRenderView /\ Top.lView = l
    /\ Len(lViews[l].slots) >
         HEADER_OFFSET + DefOf(lViews[l].def).decls + DefOf(lViews[l].def).vars

\* The node of the log has been through resolveDirectives with bindings enabled
Resolved == Len(log) >= 2 /\ log[1].ev = "tNode" /\ log[1].bindingsEnabled

\* The defs of the registry whose selectors match the node, in registry order
MatchingDefs(component) ==
  SelectSeq(log[1].registry,
            LAMBDA d : DirectiveDef(d).selectorMatches /\ DirectiveDef(d).component = component)

\* A def preceded by its own host directives
WithHostDirectives(type) == hostDirectiveMatches(type) \o <<type>>

RECURSIVE EachWithHostDirectives(_)
EachWithHostDirectives(types) ==
  IF types = <<>> THEN <<>>
  ELSE WithHostDirectives(Head(types)) \o EachWithHostDirectives(Tail(types))

MultipleComponents(tNode) ==
  tNode.error # <<>> /\ tNode.error[1] = "MULTIPLE_COMPONENTS_FOR_HOST"

C27_SecondComponentRaises ==
  (Resolved /\ Len(MatchingDefs(TRUE)) = 2) =>
    /\ log[2].error = <<"MULTIPLE_COMPONENTS_FOR_HOST",
                        MatchingDefs(TRUE)[1], MatchingDefs(TRUE)[2]>>
    /\ Len(log) < 3

\* C27: in a dev build two matching component defs raise the error that names
\* both and nothing is instantiated on the node; a production build raises
\* nothing and instantiateAllDirectives makes an LView for each of them
C27_RaisedInDevBuild ==
  (Resolved /\ Len(MatchingDefs(TRUE)) = 2) =>
    IF log[1].devMode
    THEN /\ log[2].error = <<"MULTIPLE_COMPONENTS_FOR_HOST",
                             MatchingDefs(TRUE)[1], MatchingDefs(TRUE)[2]>>
         /\ Len(log) < 3
    ELSE /\ ~MultipleComponents(log[2])
         /\ log[2].components = 2
         /\ Len(log) >= 3 =>
              /\ Len(log[3].lViews) = 2
              /\ Range(log[3].lViews) = Range(MatchingDefs(TRUE))

\* A dev build met the second component of a node
C27_Witness ==
  /\ Resolved /\ log[1].devMode
  /\ log[1].registry = <<"CompB", "DirY", "CompA">>
  /\ log[2].error = <<"MULTIPLE_COMPONENTS_FOR_HOST", "CompB", "CompA">>

\* The export names of the local refs, in template order
ExportsOf(localRefs) == [k \in 1..(Len(localRefs) \div 2) |-> localRefs[2 * k]]

\* The exportAs names of the directives matched on the node
ExportedAs(tNode) == UNION {Range(DirectiveDef(d).exportAs) : d \in Range(tNode.matches)}

\* The last matched directive exported under the name: its index
LastExporting(tNode, name) ==
  LET is == {i \in tNode.directiveStart..(tNode.directiveEnd - 1) :
               name \in Range(DirectiveDef(tNode.data[i]).exportAs)}
  IN CHOOSE i \in is : \A j \in is : j <= i

\* C28: on a node that at most one component matches, EXPORT_NOT_FOUND is
\* raised exactly when a local ref names an export that no matched directive
\* is exported as; the empty name resolves to the
\* component's index or to -1; on success localNames holds the (name, index)
\* pairs in the order of localRefs
C28_ExportNotFoundExactly ==
  (Resolved /\ ~log[1].localRefsNull /\ Len(MatchingDefs(TRUE)) <= 1) =>
    LET tNode == log[2]
        exports == ExportsOf(log[1].localRefs)
        unknown == {k \in DOMAIN exports :
                      exports[k] # "" /\ exports[k] \notin ExportedAs(tNode)}
    IN /\ (tNode.error # <<>>) <=> (unknown # {})
       /\ tNode.error # <<>> => tNode.error[1] = "EXPORT_NOT_FOUND"
       /\ tNode.error = <<>> =>
            /\ Len(tNode.localNames) = Len(log[1].localRefs)
            /\ \A k \in DOMAIN exports :
                 /\ tNode.localNames[2 * k - 1] = log[1].localRefs[2 * k - 1]
                 /\ tNode.localNames[2 * k] =
                      IF exports[k] # "" THEN LastExporting(tNode, exports[k])
                      ELSE IF tNode.componentOffset > -1
                      THEN tNode.directiveStart + tNode.componentOffset
                      ELSE -1

\* The indexes of the directive range whose def declares the input, ascending
Declaring(tNode, publicName) ==
  SelectSeq([k \in 1..(tNode.directiveEnd - tNode.directiveStart) |->
               tNode.directiveStart + k - 1],
            LAMBDA i : \E e \in Range(DirectiveDef(tNode.data[i]).inputs) : e[1] = publicName)

\* The private name a def gives an input
PrivateName(type, publicName) ==
  (CHOOSE e \in Range(DirectiveDef(type).inputs) : e[1] = publicName)[2]

\* All the names of inputs and outputs
PropertyNames == {"value", "other", "hidden", "hostValue", "change", "done"}

\* No def of the node has an entry in the host directive map
NoAliasMap(tNode) == DOMAIN tNode.hostDirectiveDefs = {}

\* C29: without a host directive alias map, tNode.inputs[p] holds one
\* (directiveIndex, privateName) pair for each directive of the range that
\* declares p, in ascending index, and setInputsForProperty delivers the value
\* to each of them under its private name, through def.setInput when the def
\* has one and by assignment otherwise
C29_InputsOfEveryDeclaringDirective ==
  (Resolved /\ log[2].hasDirectives /\ NoAliasMap(log[2])) =>
    LET tNode == log[2]
    IN /\ \A p \in PropertyNames :
            LET is == Declaring(tNode, p)
            IN /\ p \in DOMAIN tNode.inputs <=> is # <<>>
               /\ p \in DOMAIN tNode.inputs =>
                    /\ Len(tNode.inputs[p]) = 2 * Len(is)
                    /\ \A k \in DOMAIN is :
                         /\ tNode.inputs[p][2 * k - 1] = is[k]
                         /\ tNode.inputs[p][2 * k] = PrivateName(tNode.data[is[k]], p)
       /\ (Len(log) = 4 /\ log[4].ev = "setInputsForProperty") =>
            LET is == Declaring(tNode, log[4].publicName)
            IN /\ Len(log[4].writes) = Len(is)
               /\ \A k \in DOMAIN is :
                    log[4].writes[k] =
                      [index |-> is[k],
                       privateName |-> PrivateName(tNode.data[is[k]], log[4].publicName),
                       value |-> log[4].value,
                       by |-> IF DirectiveDef(tNode.data[is[k]]).setInput
                              THEN "def.setInput" ELSE "assignment"]

\* Two directives declare the input that is set, one with setInput and one without
C29_Witness ==
  /\ Resolved /\ Len(log) = 4 /\ log[4].ev = "setInputsForProperty"
  /\ NoAliasMap(log[2])
  /\ log[4].publicName = "value"
  /\ Len(log[4].writes) = 2
  /\ log[4].writes[1].by = "assignment" /\ log[4].writes[2].by = "def.setInput"
  /\ log[4].writes[1].privateName # log[4].writes[2].privateName

\* The private names paired with a directive index under a public name
PairedWith(store, publicName, directiveIndex) ==
  IF publicName \notin DOMAIN store THEN {}
  ELSE {store[publicName][2 * k] :
          k \in {k \in 1..(Len(store[publicName]) \div 2) :
                   store[publicName][2 * k - 1] = directiveIndex}}

\* The private names a def exposes under a public name: through its alias
\* map when the host directive map has an entry for it, else as declared
Exposed(tNode, type, field, publicName) ==
  {e[2] : e \in {e \in Range(DirectiveDef(type)[field]) :
                   IF type \in DOMAIN tNode.hostDirectiveDefs
                   THEN /\ e[1] \in DOMAIN tNode.hostDirectiveDefs[type][field]
                        /\ tNode.hostDirectiveDefs[type][field][e[1]] = publicName
                   ELSE e[1] = publicName}}

\* C30: of a def with an entry in the host directive map only the inputs and
\* outputs whose public name is a key of its alias map are exposed, each under
\* the alias; a def without an entry exposes all of them under their own names
C30_AliasMapFiltersAndRenames ==
  (Resolved /\ log[2].hasDirectives) =>
    \A i \in log[2].directiveStart..(log[2].directiveEnd - 1) :
      \A p \in PropertyNames :
        /\ PairedWith(log[2].inputs, p, i) = Exposed(log[2], log[2].data[i], "inputs", p)
        /\ PairedWith(log[2].outputs, p, i) = Exposed(log[2], log[2].data[i], "outputs", p)

\* A host directive exposed under its alias only, beside its host under its own name
C30_Witness ==
  /\ Resolved /\ log[2].hasDirectives
  /\ log[1].registry = <<"DirX", "CompA">>
  /\ "hidden" \notin DOMAIN log[2].inputs
  /\ log[2].inputs["hostValue"] = <<log[2].directiveStart, "hv">>
  /\ log[2].inputs["value"] =
       <<log[2].directiveStart + 1, "valueA", log[2].directiveStart + 2, "xv",
         log[2].directiveStart + 3, "v">>
  /\ log[2].outputs["change"] =
       <<log[2].directiveStart + 1, "changeA", log[2].directiveStart + 2, "xd",
         log[2].directiveStart + 3, "c">>

RECURSIVE ParseOpCodes(_, _, _)
\* The host binding calls a stream asks for: after each select opcode the
\* triples of the element, each with the element selected before it
ParseOpCodes(hostBindingOpCodes, i, element) ==
  IF i > Len(hostBindingOpCodes) THEN <<>>
  ELSE IF hostBindingOpCodes[i].number < 0
  THEN ParseOpCodes(hostBindingOpCodes, i + 1, -hostBindingOpCodes[i].number - 1)
  ELSE <<[directiveIdx |-> hostBindingOpCodes[i].number,
          bindingRootIndex |-> hostBindingOpCodes[i + 1].number,
          hostBindings |-> hostBindingOpCodes[i + 2].hostBindings,
          element |-> element]>>
       \o ParseOpCodes(hostBindingOpCodes, i + 3, element)

HostBindingCalls == SelectSeq(log, LAMBDA e : e.ev = "hostBindingFn")

\* C31: the host binding functions are called in the order of the stream, each
\* with Update and the directive of its directiveIndex, its binding root set
\* and the element of the nearest select opcode before it selected; once the
\* interpreter has returned or a function has thrown, the selected index is -1
C31_OpCodesInOrder ==
  (Len(log) >= 2 /\ log[1].ev = "template") =>
    LET asked == ParseOpCodes(tViews[1].hostBindingOpCodes, 1, -1)
        calls == HostBindingCalls
    IN /\ Len(calls) <= Len(asked)
       /\ \A k \in DOMAIN calls :
            /\ calls[k].rf = "Update"
            /\ calls[k].directiveIdx = asked[k].directiveIdx
            /\ calls[k].hostBindings = asked[k].hostBindings
            /\ calls[k].context = asked[k].hostBindings
            /\ calls[k].bindingRootIndex = asked[k].bindingRootIndex
            /\ calls[k].currentDirectiveIndex = asked[k].directiveIdx
            /\ calls[k].selectedIndex = asked[k].element
            /\ calls[k].throws => k = Len(calls)
       /\ (InHostBindings /\ Top.pc = "done") =>
            /\ Top.selectedIndex = -1
            /\ log[Len(log)].ev = "return" => Len(calls) = Len(asked)
            /\ log[Len(log)].ev = "throw" => calls[Len(calls)].throws

\* A host binding function of the second element threw after one of the first ran
C31_Witness ==
  /\ InHostBindings /\ Top.pc = "done"
  /\ log[Len(log)].ev = "throw"
  /\ Len(HostBindingCalls) >= 2
  /\ HostBindingCalls[1].selectedIndex = HEADER_OFFSET
  /\ HostBindingCalls[Len(HostBindingCalls)].selectedIndex = HEADER_OFFSET + 1
  /\ Top.selectedIndex = -1

\* The select opcodes of a stream, in order
SelectOpCodes(hostBindingOpCodes) ==
  LET RECURSIVE from(_)
      from(i) ==
        IF i > Len(hostBindingOpCodes) THEN <<>>
        ELSE IF hostBindingOpCodes[i].number < 0
        THEN <<hostBindingOpCodes[i].number>> \o from(i + 1)
        ELSE from(i + 3)
  IN from(1)

\* C32: no select opcode repeats the one before it: the host bindings of the
\* directives of one element, whatever their hostVars, follow one select opcode
C32_NoRedundantSelect ==
  (Len(log) >= 2 /\ log[1].ev = "template") =>
    LET selects == SelectOpCodes(tViews[1].hostBindingOpCodes)
    IN \A k \in 2..Len(selects) : selects[k] # selects[k - 1]

\* The host vars of the directives of a node
RECURSIVE HostVarsOf(_)
HostVarsOf(directives) ==
  IF directives = <<>> THEN 0
  ELSE HostDef(Head(directives)).hostVars + HostVarsOf(Tail(directives))

\* C36: the directive range of a node is one run of slots, as many as defs
\* were matched, that starts where tView.data ended; data holds the k-th def at
\* directiveStart + k; the host vars of these directives lie behind
\* directiveEnd and hold NO_CHANGE in the LView and in the blueprint
C36_DirectiveRange ==
  (Len(log) >= 2 /\ log[1].ev = "template") =>
    LET tView == tViews[1]
        lView == lViews[1].slots
        tNodes == tView.tNodes
        matched(j) == log[1].nodes[tNodes[j].index - HEADER_OFFSET + 1]
        endOf(j) == tNodes[j].directiveEnd + HostVarsOf(matched(j))
    IN /\ Len(tNodes) = Len(SelectSeq(log[1].nodes, LAMBDA ds : ds # <<>>))
       /\ Len(tView.data) =
            IF tNodes = <<>> THEN Len(createTView("Hosts").data) ELSE endOf(Len(tNodes))
       /\ \A j \in DOMAIN tNodes :
            /\ tNodes[j].directiveStart =
                 IF j = 1 THEN Len(createTView("Hosts").data) ELSE endOf(j - 1)
            /\ tNodes[j].directiveEnd = tNodes[j].directiveStart + Len(matched(j))
            /\ \A k \in DOMAIN matched(j) :
                 /\ tView.data[tNodes[j].directiveStart + k] = matched(j)[k]
                 /\ tView.blueprint[tNodes[j].directiveStart + k] = "factory"
                 /\ lView[tNodes[j].directiveStart + k] = "factory"
            /\ \A i \in (tNodes[j].directiveEnd + 1)..endOf(j) :
                 /\ lView[i] = "NO_CHANGE"
                 /\ tView.blueprint[i] = "NO_CHANGE"
            /\ \A c \in Range(log[2].calls) :
                 (c.fn = "allocExpando" /\ c.allocIdx >= tNodes[j].directiveStart
                  /\ c.allocIdx < endOf(j) /\ c.allocIdx # tNodes[j].directiveStart)
                   => c.allocIdx >= tNodes[j].directiveEnd

\* Two directives with host vars on the first element, one on the second
C36_Witness ==
  /\ Len(log) >= 2 /\ log[1].ev = "template"
  /\ log[1].nodes = <<<<"Bound2", "Bound">>, <<"Bound">>>>
  /\ Len(tViews[1].tNodes) = 2
  /\ tViews[1].tNodes[2].directiveStart = tViews[1].tNodes[1].directiveEnd + 3
  /\ tViews[1].data[tViews[1].tNodes[2].directiveStart + 1] = "Bound"

\* v has RefreshTransplantedView in the flags F
Flagged(F, v) == "RefreshTransplantedView" \in F[v]

\* The step sets, or clears, the flag of v
FlagSet(v) == ~Flagged(FLAGS, v) /\ Flagged(FLAGS', v)
FlagCleared(v) == Flagged(FLAGS, v) /\ ~Flagged(FLAGS', v)

\* The passes that an exception ended, as their leaveView events
ThrownPasses == {k \in DOMAIN log : log[k].ev = "leaveView after throw"}

\* A counter is the number of flagged views below it
CountersCountFlags ==
  \A n \in LViews \cup LContainers :
    TRANSPLANTED_VIEWS_TO_REFRESH[n] = Cardinality(FlaggedBelow(FLAGS, n))

\* The pass that ended with the event e left the flag of its view as it found it
KeptFlag(e) ==
  ("RefreshTransplantedView" \in e.flags)
    <=> ("RefreshTransplantedView" \in log[e.pass].flags)

\* C33: every change of a counter is paired with a change of a flag: the flag
\* of a view goes from clear to set only in markTransplantedViewsForRefresh of
\* the view that declares it, and from set to clear only at the end of its own
\* refreshView; each step changes every counter by the number of flags set
\* below it less the number cleared, so that a counter is always the number
\* of flagged views below it (a view counts once); no step of an exception on
\* its way up changes a flag or a counter, and the pass that it ended left the
\* flag of its view as it found it.  (The counters are right at the start and
\* are compared again after every step that changes a flag or a counter.)
C33_CounterPairedWithFlag ==
  [][/\ (ops = 0 /\ ticks = 0) => CountersCountFlags
     /\ (InError \/ InError') => UNCHANGED <<FLAGS, TRANSPLANTED_VIEWS_TO_REFRESH>>
     /\ (Len(log') = Len(log) + 1 /\ log'[Len(log')].ev = "leaveView after throw") =>
          KeptFlag(log'[Len(log')])
     /\ (TRANSPLANTED_VIEWS_TO_REFRESH' # TRANSPLANTED_VIEWS_TO_REFRESH
         \/ \E v \in LViews : FlagSet(v) \/ FlagCleared(v)) =>
          /\ CountersCountFlags'
          /\ \A v \in LViews :
               /\ FlagSet(v) =>
                    /\ AtStep("markTransplantedViewsForRefresh")
                    /\ v \in Range(Flatten(containersOf(Top.lView), TRUE))
                    /\ TRANSPLANTED_VIEWS_TO_REFRESH'[PARENT(v)]
                         = TRANSPLANTED_VIEWS_TO_REFRESH[PARENT(v)] + 1
               /\ FlagCleared(v) =>
                    /\ AtStep("resetFlags") /\ Top.lView = v
                    /\ TRANSPLANTED_VIEWS_TO_REFRESH'[PARENT(v)]
                         = TRANSPLANTED_VIEWS_TO_REFRESH[PARENT(v)] - 1
          /\ \A n \in LViews \cup LContainers :
               TRANSPLANTED_VIEWS_TO_REFRESH'[n] - TRANSPLANTED_VIEWS_TO_REFRESH[n] =
                 Cardinality({v \in LViews : n \in NodesAbove(v) /\ FlagSet(v)})
                 - Cardinality({v \in LViews : n \in NodesAbove(v) /\ FlagCleared(v)})]_vars

\* The refresh of the flagged view E threw: E is still flagged and counted
\* once, after a second marking by D, while F was flagged, refreshed and cleared
C33_Witness ==
  /\ Returned
  /\ \E k \in ThrownPasses : log[k].lView = "E" /\ Flagged([v \in LViews |-> log[k].flags], "E")
  /\ Flagged(FLAGS, "E") /\ Flagged(start.FLAGS, "E")
  /\ TRANSPLANTED_VIEWS_TO_REFRESH["cK"] = 1
  /\ ~Flagged(FLAGS, "F") /\ TRANSPLANTED_VIEWS_TO_REFRESH["cB"] = 0

\* The frame that the step pushes on a refreshContainsDirtyView frame
Pushed == stack'[Len(stack')]

\* Every pass entered from refreshContainsDirtyView is one of an attached,
\* flagged embedded view
EnteredFlagged ==
  \A k \in DOMAIN log :
    (log[k].ev = "enterView" /\ log[k].via = "refreshContainsDirtyView") =>
      /\ log[k].lView \in EmbeddedViews
      /\ {"Attached", "RefreshTransplantedView"} \subseteq log[k].flags

EventsOf(v, evs) == {k \in DOMAIN log : log[k].ev \in evs /\ log[k].lView = v}

\* C38: one top-level call of detectChangesInternal enters refreshView at most
\* once on any LView, so that the template and each hook schedule of a view run
\* at most once in it.  (The log grows by one event at a time, so each event is
\* compared with the events before it when it is the newest.)
C38_RefreshedAtMostOnce ==
  (start.active /\ log # <<>>) =>
    LET e == log[Len(log)]
        Before(evs) == \E j \in 1..(Len(log) - 1) : log[j].ev \in evs /\ log[j].lView = e.lView
    IN \A evs \in {{"enterView"}, {"template"}, PreOrderHookEvents, ContentHookEvents,
                    ViewHookEvents, {"leaveView", "leaveView after throw"}} :
         e.ev \in evs => ~Before(evs)

\* A call that refreshed E from the embedded views of K, after which D flagged
\* it again, and refreshed F through refreshContainsDirtyView, with G detached
C38_Witness ==
  /\ Returned /\ start.fn = "detectChangesInternal"
  /\ Cardinality(EventsOf("E", {"leaveView"})) = 1
  /\ Cardinality(EventsOf("D", {"leaveView"})) = 1
  /\ Flagged(FLAGS, "E") /\ ~Flagged(start.FLAGS, "E")
  /\ ~viewAttachedToChangeDetector("G") /\ EventsOf("G", {"enterView"}) = {}
  /\ \E k \in EventsOf("K", {"enterView"}) : log[k].via = "refreshComponent"

\* The step is a call of createTNodeAtIndex from getOrCreateTNode
CreatesTNode ==
  /\ Len(log') = Len(log) + 1
  /\ log'[Len(log')].ev = "createTNodeAtIndex"

\* C37: the first TNode that createTNodeAtIndex creates in a TView becomes its
\* firstChild, which is never assigned again; the call writes a child or next
\* link only of the current TNode, the child link when the cursor is at a
\* parent and the next link otherwise, only when the link is null, and it
\* makes the link point to the new TNode; a link that is set is never changed
C37_LinksNeverOverwritten ==
  [][/\ tViews[1].firstChild # NULL => tViews'[1].firstChild = tViews[1].firstChild
     /\ \A n \in Slots :
          /\ tViews[1].data[n].child # NULL => tViews'[1].data[n].child = tViews[1].data[n].child
          /\ tViews[1].data[n].next # NULL => tViews'[1].data[n].next = tViews[1].data[n].next
     /\ CreatesTNode =>
          LET index == log'[Len(log')].index IN
          /\ tViews[1].firstChild = NULL => tViews'[1].firstChild = index
          /\ tViews'[1].data[index].next = NULL /\ tViews'[1].data[index].child = NULL
          /\ \A n \in Slots \ {index} :
               /\ tViews'[1].data[n].child # tViews[1].data[n].child =>
                    /\ n = Top.currentTNode /\ Top.isParent
                    /\ tViews[1].data[n].child = NULL /\ tViews'[1].data[n].child = index
               /\ tViews'[1].data[n].next # tViews[1].data[n].next =>
                    /\ n = Top.currentTNode /\ ~Top.isParent
                    /\ tViews[1].data[n].next = NULL /\ tViews'[1].data[n].next = index]_vars

\* createTNodeAtIndex has created a sibling of a node whose next link i18n had
\* set to a third node, and a child of a node whose child link i18n had set
C37_Witness ==
  /\ \E k \in DOMAIN log :
       /\ log[k].ev = "createTNodeAtIndex" /\ log[k].currentTNode # NULL
       /\ ~log[k].isParent
       /\ log[k].tView.data[log[k].currentTNode].next \notin {NULL, log[k].index}
       /\ tViews[1].data[log[k].currentTNode].next
            = log[k].tView.data[log[k].currentTNode].next
  /\ \E k \in DOMAIN log :
       /\ log[k].ev = "createTNodeAtIndex" /\ log[k].currentTNode # NULL
       /\ log[k].isParent
       /\ log[k].tView.data[log[k].currentTNode].child \notin {NULL, log[k].index}
       /\ tViews[1].data[log[k].currentTNode].child
            = log[k].tView.data[log[k].currentTNode].child
  /\ tViews[1].firstChild # NULL

\* The property bindings of the call that set an input on a component host
InputsSetOnHost ==
  {k \in DOMAIN log : /\ log[k].ev = "elementPropertyInternal"
                      /\ log[k].written = "setInputsForProperty"
                      /\ log[k].tNode.isComponentHost}

\* The pass p of the parent has completed
Completed(p) == \E j \in DOMAIN log : log[j].ev = "leaveView" /\ log[j].pass = p

\* refreshView was entered on the child of the binding k, from the pass of the
\* parent that executed the binding and after it
RefreshedInSamePass(k) ==
  \E j \in DOMAIN log :
    /\ j > k /\ log[j].ev = "enterView" /\ log[j].lView = log[k].tNode.index
    /\ log[j].via = "refreshComponent" /\ log[j].from = log[k].pass

\* markDirtyIfOnPush on the flags recorded by the binding k
MarkedIfOnPush(k) ==
  log[k].after = IF "CheckAlways" \in log[k].before THEN log[k].before
                 ELSE log[k].before \cup {"Dirty"}

FirstPasses ==
  {k \in DOMAIN log : log[k].ev = "enterView" /\ "FirstLViewPass" \in log[k].flags}

====
